---- MODULE Spec2Model ----
(***************************************************************************)
(* Trade-plan validation core of TradingAgents: RiskValidator,             *)
(* StrategyAnalyzer and the TradingCoachAgent session that combines them.  *)
(*                                                                         *)
(* Prices, sizes and account values are integers (whole currency units).   *)
(* Every float comparison of the source against 1.5, 2.0, 3.0 and 10.0 is  *)
(* modelled by the equivalent cross-multiplied integer comparison, which   *)
(* agrees with IEEE double arithmetic on integer operands of this size.    *)
(***************************************************************************)
EXTENDS Integers, Sequences, FiniteSets, TLC

VARIABLES
    plan,                  \* the trade plan handed to the calls (arguments)
    current_context,       \* TradingCoachAgent.current_context
    conversation_history,  \* TradingCoachAgent.conversation_history
    validation_history,    \* RiskValidator.validation_history (entries are never read: their number)
    analysis_history,      \* StrategyAnalyzer.analysis_history (entries are never read: their number)
    ret,                   \* the last call: operation, arguments, returned value or raised error
    frame                  \* the locals of a call in progress (a call taken in several steps)

vars == <<plan, current_context, conversation_history, validation_history,
          analysis_history, ret, frame>>

----------------------------------------------------------------------------
(* Python values *)

\* Optional[float]: None is the empty tuple, a number v is <<v>>.
None == <<>>
Some(v) == <<v>>
IsNone(x) == x = None
Val(x) == x[1]

\* Python truthiness of an Optional number: None and 0 are falsy.
Truthy(x) == ~IsNone(x) /\ Val(x) # 0

Abs(n) == IF n < 0 THEN -n ELSE n

Min(a, b) == IF a < b THEN a ELSE b

\* dict.get(key, default) on a dict modelled as a function over its keys.
Get(d, k, default) == IF k \in DOMAIN d THEN d[k] ELSE default

\* The empty dict {} (falsy).
EmptyDict == [k \in {} |-> 0]

\* A text is modelled by its length and by the set of lower-cased phrases of
\* the keyword tables that occur in it as substrings.
Contains(text, phrase) == phrase \in text.has

----------------------------------------------------------------------------
(* Bounds of the input space *)

MaxPrice == 8
MaxSize == 3
MaxAudit == 1
MaxTurns == 14
MaxCalls == 4

Directions == {"LONG", "SHORT", "HOLD"}

EmptyText == [len |-> 0, has |-> {}]

----------------------------------------------------------------------------
(* RiskValidator *)

MAX_RISK_PERCENT == 3
RECOMMENDED_RISK_PERCENT == 2
\* MIN_RISK_REWARD_RATIO = 1.5, kept in tenths.
MIN_RISK_REWARD_RATIO_TENTHS == 15
RECOMMENDED_RISK_REWARD_RATIO == 2
MAX_POSITION_SIZE_PERCENT == 10

\* The locals of validate_trade_plan at its start; trace records severity
\* after each rule, in evaluation order.
StartChecks == [issues |-> <<>>, warnings |-> <<>>, approvals |-> <<>>,
                severity |-> "SAFE", trace |-> <<"SAFE">>]

\* issues.append({...}); severity = "CRITICAL"
AddIssue(st, rec) ==
    [st EXCEPT !.issues = Append(@, rec), !.severity = "CRITICAL"]

\* Mutant: the warning branch without its `if severity == "SAFE"` guard.
AddWarningUnconditional(st, rec) ==
    [st EXCEPT !.warnings = Append(@, rec), !.severity = "WARNING"]
\* warnings.append({...}); if severity == "SAFE": severity = "WARNING"
AddWarning(st, rec) ==
    [st EXCEPT !.warnings = Append(@, rec),
               !.severity = IF @ = "SAFE" THEN "WARNING" ELSE @]

\* approvals.append({...})
AddApproval(st, rec) == [st EXCEPT !.approvals = Append(@, rec)]

EndRule(st) == [st EXCEPT !.trace = Append(@, st.severity)]

\* Mutant: a missing stop loss recorded as a warning only.
CheckStopLossAsWarning(st, p) ==
    IF IsNone(p.stop_loss)
    THEN AddWarning(st, [type |-> "WARNING", issue |-> "NO STOP LOSS"])
    ELSE st

\* Critical Check #1: stop loss
CheckStopLoss(st, p) ==
    IF IsNone(p.stop_loss)
    THEN AddIssue(st, [type |-> "CRITICAL", issue |-> "NO STOP LOSS"])
    ELSE st

\* Critical Check #2: entry price
CheckEntryPrice(st, p) ==
    IF IsNone(p.entry_price) \/ Val(p.entry_price) <= 0
    THEN AddIssue(st, [type |-> "CRITICAL", issue |-> "INVALID ENTRY PRICE"])
    ELSE st

\* if entry_price and stop_loss and take_profit and position_size:
MetricsAvailable(p) ==
    /\ Truthy(p.entry_price)
    /\ Truthy(p.stop_loss)
    /\ Truthy(p.take_profit)
    /\ Truthy(p.position_size)

RiskPerShare(p) == Abs(Val(p.entry_price) - Val(p.stop_loss))
RewardPerShare(p) == Abs(Val(p.take_profit) - Val(p.entry_price))

\* Mutant: rr_ratio <= MIN_RISK_REWARD_RATIO.
RatioBelowMinInclusive(reward, risk) == 10 * reward <= MIN_RISK_REWARD_RATIO_TENTHS * risk

\* rr_ratio < MIN_RISK_REWARD_RATIO, for risk > 0
RatioBelowMin(reward, risk) == 10 * reward < MIN_RISK_REWARD_RATIO_TENTHS * risk
\* rr_ratio < RECOMMENDED_RISK_REWARD_RATIO, for risk > 0
RatioBelowRecommended(reward, risk) == reward < RECOMMENDED_RISK_REWARD_RATIO * risk

\* entry_price + risk_per_share * RECOMMENDED_RISK_REWARD_RATIO
FixTarget(p) == Val(p.entry_price) + RiskPerShare(p) * RECOMMENDED_RISK_REWARD_RATIO

\* Risk-reward ratio
CheckRiskRewardRatio(st, p) ==
    IF MetricsAvailable(p) /\ RiskPerShare(p) > 0
    THEN IF RatioBelowMin(RewardPerShare(p), RiskPerShare(p))
         THEN AddIssue(st, [type |-> "CRITICAL", issue |-> "POOR RISK-REWARD RATIO",
                            fix_target |-> FixTarget(p)])
         ELSE IF RatioBelowRecommended(RewardPerShare(p), RiskPerShare(p))
         THEN AddWarning(st, [type |-> "WARNING", issue |-> "SUBOPTIMAL RISK-REWARD",
                              fix_target |-> FixTarget(p)])
         ELSE AddApproval(st, [aspect |-> "Risk-Reward Ratio", status |-> "EXCELLENT"])
    ELSE st

\* total_risk = position_size * risk_per_share
TotalRisk(p) == Val(p.position_size) * RiskPerShare(p)

\* risk_percent > limit, with risk_percent = (total_risk / account_size) * 100
\* and account_size > 0
RiskPercentAbove(p, limit) == TotalRisk(p) * 100 > limit * p.account_size

\* Mutant: the resized share count computed from MAX_RISK_PERCENT.
FixSharesAtMaxRisk(p) == (p.account_size * MAX_RISK_PERCENT) \div (100 * RiskPerShare(p))

\* int((account_size * RECOMMENDED_RISK_PERCENT / 100) / risk_per_share)
FixShares(p) == (p.account_size * RECOMMENDED_RISK_PERCENT) \div (100 * RiskPerShare(p))

\* Total risk amount as a percentage of the account
CheckAccountRisk(st, p) ==
    IF MetricsAvailable(p)
    THEN IF RiskPercentAbove(p, MAX_RISK_PERCENT)
         THEN AddIssue(st, [type |-> "CRITICAL", issue |-> "EXCESSIVE RISK",
                            fix_shares |-> FixShares(p)])
         ELSE IF RiskPercentAbove(p, RECOMMENDED_RISK_PERCENT)
         THEN AddWarning(st, [type |-> "WARNING", issue |-> "HIGH RISK",
                              fix_shares |-> FixShares(p)])
         ELSE AddApproval(st, [aspect |-> "Risk Percentage", status |-> "GOOD"])
    ELSE st

\* position_percent > MAX_POSITION_SIZE_PERCENT, with
\* position_percent = (position_size * entry_price / account_size) * 100
PositionPercentAbove(p, limit) ==
    Val(p.position_size) * Val(p.entry_price) * 100 > limit * p.account_size

\* Mutant: concentration recorded as a critical issue.
CheckPositionSizeAsIssue(st, p) ==
    IF MetricsAvailable(p) /\ PositionPercentAbove(p, MAX_POSITION_SIZE_PERCENT)
    THEN AddIssue(st, [type |-> "CRITICAL", issue |-> "LARGE POSITION SIZE"])
    ELSE st

\* Position size check
CheckPositionSize(st, p) ==
    IF MetricsAvailable(p) /\ PositionPercentAbove(p, MAX_POSITION_SIZE_PERCENT)
    THEN AddWarning(st, [type |-> "WARNING", issue |-> "LARGE POSITION SIZE"])
    ELSE st

\* Stop loss placement by trade direction
CheckStopPlacement(st, p) ==
    IF Truthy(p.entry_price) /\ Truthy(p.stop_loss)
    THEN IF p.trade_direction = "LONG"
         THEN IF Val(p.stop_loss) >= Val(p.entry_price)
              THEN AddIssue(st, [type |-> "CRITICAL", issue |-> "INVALID STOP LOSS PLACEMENT"])
              ELSE AddApproval(st, [aspect |-> "Stop Loss Placement", status |-> "CORRECT"])
         ELSE IF p.trade_direction = "SHORT"
         THEN IF Val(p.stop_loss) <= Val(p.entry_price)
              THEN AddIssue(st, [type |-> "CRITICAL", issue |-> "INVALID STOP LOSS PLACEMENT"])
              ELSE AddApproval(st, [aspect |-> "Stop Loss Placement", status |-> "CORRECT"])
         ELSE st
    ELSE st

\* Take profit placement by trade direction
CheckTakeProfitPlacement(st, p) ==
    IF Truthy(p.entry_price) /\ Truthy(p.take_profit)
    THEN IF p.trade_direction = "LONG"
         THEN IF Val(p.take_profit) <= Val(p.entry_price)
              THEN AddIssue(st, [type |-> "CRITICAL", issue |-> "INVALID TAKE PROFIT PLACEMENT"])
              ELSE AddApproval(st, [aspect |-> "Take Profit Placement", status |-> "CORRECT"])
         ELSE IF p.trade_direction = "SHORT"
         THEN IF Val(p.take_profit) >= Val(p.entry_price)
              THEN AddIssue(st, [type |-> "CRITICAL", issue |-> "INVALID TAKE PROFIT PLACEMENT"])
              ELSE AddApproval(st, [aspect |-> "Take Profit Placement", status |-> "CORRECT"])
         ELSE st
    ELSE st

\* The rules of validate_trade_plan in source order.
RunChecks(p) ==
    LET s1 == EndRule(CheckStopLoss(StartChecks, p))
        s2 == EndRule(CheckEntryPrice(s1, p))
        s3 == EndRule(CheckRiskRewardRatio(s2, p))
        s4 == EndRule(CheckAccountRisk(s3, p))
        s5 == EndRule(CheckPositionSize(s4, p))
        s6 == EndRule(CheckStopPlacement(s5, p))
        s7 == EndRule(CheckTakeProfitPlacement(s6, p))
    IN  s7

\* Mutant: `entry_price <= 0` evaluated without the `is None` guard.
RiskValidatorRaisesOnMissingEntry(p) ==
    IsNone(p.entry_price) \/ (MetricsAvailable(p) /\ p.account_size = 0)

\* (total_risk / account_size) and (position_value / account_size) divide by
\* account_size whenever the metrics block is entered.
RiskValidatorRaises(p) == MetricsAvailable(p) /\ p.account_size = 0

\* RiskValidator.validate_trade_plan: the returned dict, or the raised error.
RiskValidate(p) ==
    IF RiskValidatorRaises(p)
    THEN [raised |-> TRUE, error |-> "ZeroDivisionError"]
    ELSE LET st == RunChecks(p)
         IN  [raised |-> FALSE,
              is_valid |-> Len(st.issues) = 0,
              severity |-> st.severity,
              can_execute |-> st.severity # "CRITICAL",
              issues |-> st.issues,
              warnings |-> st.warnings,
              approvals |-> st.approvals,
              trace |-> st.trace]

----------------------------------------------------------------------------
(* RiskValidator.validate_risk_reward *)

\* The returned tuple (is_valid, message, rr_ratio); the message is kept by its
\* kind, the ratio reward / risk as the pair of its terms (0 / 1 for the literal 0).
RiskRewardVerdict(is_valid, message, reward, risk) ==
    [is_valid |-> is_valid, message |-> message, reward |-> reward, risk |-> risk]

\* validate_risk_reward(entry, stop, target, trade_direction), on numbers
ValidateRiskReward(entry, stop, target, trade_direction) ==
    LET risk == IF trade_direction = "LONG" THEN entry - stop
                ELSE IF trade_direction = "SHORT" THEN stop - entry
                ELSE Abs(entry - stop)
        reward == IF trade_direction = "LONG" THEN target - entry
                  ELSE IF trade_direction = "SHORT" THEN entry - target
                  ELSE Abs(target - entry)
    IN  IF trade_direction = "LONG" /\ stop >= entry
        THEN RiskRewardVerdict(FALSE, "Invalid for LONG: Stop loss must be BELOW entry", 0, 1)
        ELSE IF trade_direction = "LONG" /\ target <= entry
        THEN RiskRewardVerdict(FALSE, "Invalid for LONG: Target must be ABOVE entry", 0, 1)
        ELSE IF trade_direction = "SHORT" /\ stop <= entry
        THEN RiskRewardVerdict(FALSE, "Invalid for SHORT: Stop loss must be ABOVE entry", 0, 1)
        ELSE IF trade_direction = "SHORT" /\ target >= entry
        THEN RiskRewardVerdict(FALSE, "Invalid for SHORT: Target must be BELOW entry", 0, 1)
        ELSE IF risk = 0
        THEN RiskRewardVerdict(FALSE, "Invalid: Risk is zero", 0, 1)
        ELSE IF RatioBelowMin(reward, risk)
        THEN RiskRewardVerdict(FALSE, "R:R too low", reward, risk)
        ELSE IF RatioBelowRecommended(reward, risk)
        THEN RiskRewardVerdict(TRUE, "R:R acceptable but suboptimal", reward, risk)
        ELSE RiskRewardVerdict(TRUE, "Excellent R:R", reward, risk)

----------------------------------------------------------------------------
(* RiskValidator.detect_dangerous_patterns *)

\* The dangerous_patterns table, in dict order.
DangerousPatternTable ==
    << [pattern |-> "no stop", severity |-> "CRITICAL"],
       [pattern |-> "all in", severity |-> "CRITICAL"],
       [pattern |-> "averaging down", severity |-> "CRITICAL"],
       [pattern |-> "double down", severity |-> "CRITICAL"],
       [pattern |-> "revenge", severity |-> "CRITICAL"],
       [pattern |-> "hope", severity |-> "WARNING"],
       [pattern |-> "hold forever", severity |-> "WARNING"],
       [pattern |-> "can't lose", severity |-> "WARNING"] >>

\* A description as it is written: has holds the table phrases that occur in
\* lower case, shouted those that occur in capitals only.
Shouted(description) ==
    IF "shouted" \in DOMAIN description THEN description.shouted ELSE {}

\* Mutant: the description matched as written.
AsWritten(description) == [len |-> description.len, has |-> description.has]

\* description_lower = strategy_description.lower()
Lower(description) ==
    [len |-> description.len, has |-> description.has \cup Shouted(description)]

PatternOccurs(text, entry) == Contains(text, entry.pattern)

\* for pattern, details in dangerous_patterns.items(): if pattern in text: append
DetectDangerousPatterns(text) ==
    LET Scan[i \in 0..Len(DangerousPatternTable)] ==
            IF i = 0 THEN <<>>
            ELSE IF PatternOccurs(text, DangerousPatternTable[i])
                 THEN Append(Scan[i - 1], DangerousPatternTable[i])
                 ELSE Scan[i - 1]
    IN  Scan[Len(DangerousPatternTable)]

----------------------------------------------------------------------------
(* StrategyAnalyzer *)

\* A partial assessment: score plus evidence lists.
NoEvidence == [score |-> 0, strengths |-> <<>>, weaknesses |-> <<>>, recommendations |-> <<>>]

Plus(a, pts, s) == [a EXCEPT !.score = @ + pts, !.strengths = Append(@, s)]
Weak(a, mark, w) == [a EXCEPT !.weaknesses = Append(@, [mark |-> mark, text |-> w])]
PlusWeak(a, pts, mark, w) ==
    [a EXCEPT !.score = @ + pts, !.weaknesses = Append(@, [mark |-> mark, text |-> w])]
Recommend(a, r) == [a EXCEPT !.recommendations = Append(@, r)]

\* `x and x > 0`
PresentPositive(x) == Truthy(x) /\ Val(x) > 0

\* _assess_completeness
AssessCompleteness(entry, stop, target, size, reasoning) ==
    LET a1 == IF PresentPositive(entry)
              THEN Plus(NoEvidence, 5, "Entry price defined")
              ELSE Weak(NoEvidence, "cross", "Missing entry price")
        a2 == IF PresentPositive(stop)
              THEN Plus(a1, 10, "Stop loss defined")
              ELSE Weak(a1, "cross", "No stop loss (CRITICAL)")
        a3 == IF PresentPositive(target)
              THEN Plus(a2, 5, "Profit target defined")
              ELSE Weak(a2, "warn", "No profit target")
        a4 == IF PresentPositive(size)
              THEN Plus(a3, 5, "Position size specified")
              ELSE Weak(a3, "warn", "Position size not specified")
        a5 == IF reasoning.len > 20
              THEN Plus(a4, 5, "Trade reasoning provided")
              ELSE Weak(a4, "warn", "Insufficient reasoning")
    IN  a5

\* _assess_market_alignment
AssessMarketAlignment(direction, market_analysis) ==
    LET agent_signal == Get(market_analysis, "signal", "HOLD")
        agent_confidence == Get(market_analysis, "confidence", 50)
        a1 == IF direction = "LONG" /\ agent_signal = "BUY"
              THEN Plus(NoEvidence, 15, "Direction aligns with market analysis (BUY signal)")
              ELSE IF direction = "SHORT" /\ agent_signal = "SELL"
              THEN Plus(NoEvidence, 15, "Direction aligns with market analysis (SELL signal)")
              ELSE IF direction # "HOLD" /\ agent_signal = "HOLD"
              THEN Recommend(PlusWeak(NoEvidence, 5, "warn",
                                      "Market analysis suggests HOLD, but you want to trade"),
                             "Consider waiting for better setup")
              ELSE IF (direction = "LONG" /\ agent_signal = "SELL")
                      \/ (direction = "SHORT" /\ agent_signal = "BUY")
              THEN Recommend(Weak(NoEvidence, "cross", "Direction CONFLICTS with market analysis"),
                             "Trading against the analysis is high-risk. Reconsider.")
              ELSE NoEvidence
        a2 == IF agent_confidence >= 70
              THEN Plus(a1, 10, "High analyst confidence")
              ELSE IF agent_confidence >= 50
              THEN PlusWeak(a1, 5, "warn", "Moderate analyst confidence")
              ELSE Recommend(Weak(a1, "warn", "Low analyst confidence"),
                             "Consider reducing position size due to low conviction")
    IN  a2

\* technical_indicators.get(key): None when the key is missing
GetOpt(d, k) == IF k \in DOMAIN d THEN Some(d[k]) ELSE None

\* _assess_technical_setup
AssessTechnicalSetup(direction, entry, stop, target, technical_indicators) ==
    LET trend == Get(technical_indicators, "trend", "NEUTRAL")
        support == GetOpt(technical_indicators, "support")
        resistance == GetOpt(technical_indicators, "resistance")
        rsi == GetOpt(technical_indicators, "rsi")
        a1 == IF (direction = "LONG" /\ trend = "BULLISH")
                 \/ (direction = "SHORT" /\ trend = "BEARISH")
              THEN Plus(NoEvidence, 10, "Trading with the trend")
              ELSE IF trend = "NEUTRAL"
              THEN Recommend(PlusWeak(NoEvidence, 5, "warn", "No clear trend (choppy market)"),
                             "Consider tighter stops in range-bound conditions")
              ELSE Recommend(Weak(NoEvidence, "warn", "Trading against the trend"),
                             "Counter-trend trades require strong confirmation")
        \* if direction == "LONG" and support and entry:
        a2 == IF direction = "LONG" /\ Truthy(support) /\ Truthy(entry)
                 /\ Val(entry) * 100 <= Val(support) * 102
              THEN Plus(a1, 10, "Entry near support")
              ELSE a1
        a3 == IF direction = "LONG" /\ Truthy(support) /\ Truthy(entry)
                 /\ Truthy(stop) /\ Val(stop) < Val(support)
              THEN Plus(a2, 5, "Stop below support")
              ELSE a2
        \* if direction == "SHORT" and resistance and entry:
        a4 == IF direction = "SHORT" /\ Truthy(resistance) /\ Truthy(entry)
                 /\ Val(entry) * 100 >= Val(resistance) * 98
              THEN Plus(a3, 10, "Entry near resistance")
              ELSE a3
        a5 == IF direction = "SHORT" /\ Truthy(resistance) /\ Truthy(entry)
                 /\ Truthy(stop) /\ Val(stop) > Val(resistance)
              THEN Plus(a4, 5, "Stop above resistance")
              ELSE a4
        a6 == IF ~Truthy(rsi) THEN a5
              ELSE IF direction = "LONG" /\ 30 <= Val(rsi) /\ Val(rsi) <= 50
              THEN Plus(a5, 5, "RSI favorable for longs")
              ELSE IF direction = "SHORT" /\ 50 <= Val(rsi) /\ Val(rsi) <= 70
              THEN Plus(a5, 5, "RSI favorable for shorts")
              ELSE IF Val(rsi) > 80
              THEN IF direction = "LONG"
                   THEN Recommend(Weak(a5, "warn", "Extremely overbought"),
                                  "Consider waiting for pullback")
                   ELSE Weak(a5, "warn", "Extremely overbought")
              ELSE IF Val(rsi) < 20
              THEN IF direction = "SHORT"
                   THEN Recommend(Weak(a5, "warn", "Extremely oversold"),
                                  "Risk of bounce - use tight stops")
                   ELSE Weak(a5, "warn", "Extremely oversold")
              ELSE a5
    IN  a6

\* _assess_sentiment_alignment
AssessSentimentAlignment(direction, sentiment_data) ==
    LET sentiment == Get(sentiment_data, "overall_sentiment", "NEUTRAL")
    IN  IF (direction = "LONG" /\ sentiment = "BULLISH")
           \/ (direction = "SHORT" /\ sentiment = "BEARISH")
        THEN Plus(NoEvidence, 10, "Sentiment supports your direction")
        ELSE IF sentiment = "NEUTRAL"
        THEN [NoEvidence EXCEPT !.score = 5]
        ELSE Weak(NoEvidence, "warn", "Sentiment conflicts with direction")

analytical_terms == {"support", "resistance", "trend", "breakout", "volume",
                     "momentum", "consolidation", "pattern", "analysis"}
emotional_terms == {"hope", "feel", "believe", "gut", "hunch", "revenge",
                    "must", "can't lose", "guaranteed"}
risk_terms == {"stop", "risk", "position size"}

\* sum(1 for term in terms if term in reasoning_lower)
CountTerms(text, terms) == Cardinality({t \in terms : Contains(text, t)})

\* _assess_reasoning_quality
AssessReasoningQuality(reasoning) ==
    LET analysis_count == CountTerms(reasoning, analytical_terms)
        emotional_count == CountTerms(reasoning, emotional_terms)
        a1 == IF analysis_count >= 3
              THEN Plus(NoEvidence, 10, "Reasoning includes technical analysis")
              ELSE IF analysis_count >= 1
              THEN Plus(NoEvidence, 5, "Some technical analysis mentioned")
              ELSE Recommend(Weak(NoEvidence, "cross", "No technical reasoning provided"),
                             "Base decisions on technical/fundamental analysis, not emotions")
        a2 == IF emotional_count > 0
              THEN Recommend(Weak(a1, "warn", "Emotional language detected"),
                             "Remove emotions from trading decisions")
              ELSE Plus(a1, 5, "Objective reasoning")
        a3 == IF CountTerms(reasoning, risk_terms) > 0
              THEN Plus(a2, 5, "Risk management considered")
              ELSE a2
    IN  a3

\* _generate_assessment: the label bucket of the score
GenerateAssessment(confidence) ==
    IF confidence >= 75 THEN "STRONG SETUP"
    ELSE IF confidence >= 60 THEN "ACCEPTABLE SETUP"
    ELSE IF confidence >= 40 THEN "WEAK SETUP"
    ELSE "POOR SETUP"

\* "CRITICAL" in w or the cross mark in w
IsCriticalWeakness(w) == w.mark = "cross"

\* _determine_risk_level
DetermineRiskLevel(confidence, weaknesses) ==
    IF \E i \in 1..Len(weaknesses) : IsCriticalWeakness(weaknesses[i]) THEN "HIGH"
    ELSE IF confidence < 50 THEN "HIGH"
    ELSE IF confidence < 70 THEN "MEDIUM"
    ELSE "LOW"

\* _generate_execution_advice; the partial-profit price target * 0.75 is kept
\* in quarters of a unit.
GenerateExecutionAdvice(confidence, direction, entry, stop, target) ==
    LET tier == IF confidence >= 70
                THEN << [text |-> "Plan is solid. Execute with discipline."],
                        [text |-> "Monitor position actively after entry"] >>
                ELSE IF confidence >= 50
                THEN << [text |-> "Consider starting with a smaller position"],
                        [text |-> "Add to position if price confirms your thesis"] >>
                ELSE << [text |-> "Do NOT execute this trade yet"],
                        [text |-> "Address weaknesses first, then reassess"] >>
        stops == IF Truthy(stop)
                 THEN << [text |-> "Set stop loss IMMEDIATELY", price |-> Val(stop)],
                         [text |-> "Never move stop loss against your position"] >>
                 ELSE <<>>
        targets == IF Truthy(target)
                   THEN << [text |-> "Consider taking partial profits", quarters |-> 3 * Val(target)],
                           [text |-> "Full exit or trail stop", price |-> Val(target)] >>
                   ELSE <<>>
    IN  tier \o stops \o targets

\* Mutant: an analysis counts as supplied even when it is empty.
SuppliedAlways(d) == TRUE

\* `if market_analysis:` -- a dict is truthy when it has a key; None (an omitted
\* argument, or a key missing from the context) and {} are both falsy and are the
\* same value here.
Supplied(d) == DOMAIN d # {}

\* Mutant: the normalisation without its min(100, ...).
NormalizeScoreUnclamped(s) == IF s = 115 THEN 114 ELSE s

\* confidence_score = min(100, int((confidence_score / max_possible_score) * 100));
\* the raw sum is a multiple of 5: the double (s / 100) * 100 truncates to s for
\* every such s up to 110, and to 114 for s = 115.
NormalizeScore(s) == Min(100, IF s = 115 THEN 114 ELSE s)

Merge(a, b) == [score |-> a.score + b.score,
                strengths |-> a.strengths \o b.strengths,
                weaknesses |-> a.weaknesses \o b.weaknesses,
                recommendations |-> a.recommendations \o b.recommendations]

\* StrategyAnalyzer.analyze_trade_plan: the returned dict.
AnalyzeTradePlan(ticker, p, market_analysis, technical_indicators, sentiment_data) ==
    LET completeness == AssessCompleteness(p.entry_price, p.stop_loss, p.take_profit,
                                           p.position_size, p.user_reasoning)
        alignment == IF Supplied(market_analysis)
                     THEN AssessMarketAlignment(p.trade_direction, market_analysis)
                     ELSE NoEvidence
        technical == IF Supplied(technical_indicators)
                     THEN AssessTechnicalSetup(p.trade_direction, p.entry_price, p.stop_loss,
                                               p.take_profit, technical_indicators)
                     ELSE NoEvidence
        \* the sentiment scorer's recommendations list does not exist
        sentiment == IF Supplied(sentiment_data)
                     THEN AssessSentimentAlignment(p.trade_direction, sentiment_data)
                     ELSE NoEvidence
        reasoning == AssessReasoningQuality(p.user_reasoning)
        total == Merge(Merge(Merge(Merge(completeness, alignment), technical), sentiment),
                       reasoning)
        confidence_score == NormalizeScore(total.score)
    IN  [ticker |-> ticker,
         trade_direction |-> p.trade_direction,
         confidence_score |-> confidence_score,
         assessment |-> GenerateAssessment(confidence_score),
         strengths |-> total.strengths,
         weaknesses |-> total.weaknesses,
         recommendations |-> total.recommendations,
         risk_level |-> DetermineRiskLevel(confidence_score, total.weaknesses),
         execution_advice |-> GenerateExecutionAdvice(confidence_score, p.trade_direction,
                                                      p.entry_price, p.stop_loss, p.take_profit)]

----------------------------------------------------------------------------
(* Inputs of the RiskValidator specification *)

OptPrices == {None} \cup {Some(v) : v \in -1..MaxPrice}
OptSizes == {None} \cup {Some(v) : v \in -1..MaxSize}
AccountSizes == {0, 50, 100}

ScenarioA == [entry_price |-> Some(100), stop_loss |-> Some(98), take_profit |-> Some(106),
              position_size |-> Some(50), account_size |-> 10000,
              trade_direction |-> "LONG", user_reasoning |-> EmptyText]
ScenarioB == [entry_price |-> Some(100), stop_loss |-> None, take_profit |-> None,
              position_size |-> Some(50), account_size |-> 10000,
              trade_direction |-> "LONG", user_reasoning |-> EmptyText]
ScenarioC == [entry_price |-> Some(100), stop_loss |-> Some(102), take_profit |-> Some(110),
              position_size |-> Some(50), account_size |-> 10000,
              trade_direction |-> "LONG", user_reasoning |-> EmptyText]
ScenarioPlans == {ScenarioA, ScenarioB, ScenarioC}

RiskPlans ==
    [entry_price : OptPrices, stop_loss : OptPrices, take_profit : OptPrices,
     position_size : OptSizes, account_size : AccountSizes,
     trade_direction : Directions, user_reasoning : {EmptyText}]
    \cup ScenarioPlans

NoCall == [op |-> "none"]

\* No call is in progress.
Idle == [pc |-> "idle"]

SessionInit ==
    /\ current_context = EmptyDict
    /\ conversation_history = <<>>
    /\ validation_history = 0
    /\ analysis_history = 0
    /\ ret = NoCall
    /\ frame = Idle

InitRisk ==
    /\ plan \in RiskPlans
    /\ SessionInit

\* The arguments of RiskValidator.validate_trade_plan; current_price is an
\* Optional number here because the coach passes entry_price for it when the
\* context has no price.
RiskArgs(p, current_price) ==
    [entry_price |-> p.entry_price, stop_loss |-> p.stop_loss,
     take_profit |-> p.take_profit, position_size |-> p.position_size,
     account_size |-> p.account_size, current_price |-> current_price,
     trade_direction |-> p.trade_direction]

\* Mutant: a validator whose verdict hardens once it has validated before.
RiskValidatorStepCounting(p) ==
    LET r == RiskValidate(p)
        counted == IF r.raised \/ validation_history = 0 THEN r
                   ELSE [r EXCEPT !.severity = "CRITICAL", !.can_execute = FALSE]
    IN  /\ ret' = [op |-> "RiskValidator.validate_trade_plan",
                   args |-> RiskArgs(p, p.entry_price), value |-> counted]
        /\ validation_history' = IF r.raised THEN validation_history
                                 ELSE validation_history + 1
        /\ UNCHANGED <<current_context, conversation_history, analysis_history, frame>>

\* risk_validator.validate_trade_plan(p..., current_price=p.entry_price) on a
\* RiskValidator: the result is appended to validation_history and returned.
RiskValidatorStep(p) ==
    LET r == RiskValidate(p)
    IN  /\ ret' = [op |-> "RiskValidator.validate_trade_plan",
                   args |-> RiskArgs(p, p.entry_price), value |-> r]
        /\ validation_history' = IF r.raised THEN validation_history
                                 ELSE validation_history + 1
        /\ UNCHANGED <<current_context, conversation_history, analysis_history, frame>>

\* A direct call risk_validator.validate_trade_plan(plan...).
RiskValidatorCall ==
    /\ validation_history < MaxAudit
    /\ RiskValidatorStep(plan)
    /\ UNCHANGED plan

NextRisk == RiskValidatorCall

SpecRisk == InitRisk /\ [][NextRisk]_vars

----------------------------------------------------------------------------
(* Inputs of the StrategyAnalyzer specification *)

\* Reasoning texts: emotional wording only; one analytical term in a short text.
EmotionalText == [len |-> 30, has |-> {"hope", "revenge", "can't lose"}]
ShortText == [len |-> 12, has |-> {"trend", "risk"}]
\* Every analytical term and the risk vocabulary.
FullText == [len |-> 120, has |-> analytical_terms \cup risk_terms]

\* market_analysis: None, or a dict with any of the keys signal and confidence.
MarketAnalyses ==
    {None}
    \cup [signal : {"BUY", "SELL", "HOLD"}, confidence : {49, 50, 69, 70}]
    \cup [signal : {"BUY", "SELL", "HOLD"}]
    \cup [confidence : {49, 70}]

\* technical_indicators: None, or a dict with any of trend, support, resistance, rsi.
TechnicalIndicators ==
    {None}
    \cup [trend : {"BULLISH", "BEARISH", "NEUTRAL"}, support : {0, 4}, resistance : {4},
          rsi : {0, 19, 30, 50, 70, 81}]
    \cup [trend : {"BULLISH", "BEARISH"}]
    \cup [support : {3, 4}, resistance : {4, 5}]
    \cup [rsi : {19, 40, 60, 81}]

\* sentiment_data: None, or a dict with or without overall_sentiment.
SentimentData ==
    {None}
    \cup [overall_sentiment : {"BULLISH", "BEARISH", "NEUTRAL"}]
    \cup [score : {1}]

\* The trade plans handed to the analyzer: nothing given, a LONG-shaped plan, a
\* SHORT-shaped plan, a plan of zeros.
AnalyzerPlans ==
    { [entry_price |-> None, stop_loss |-> None, take_profit |-> None, position_size |-> None],
      [entry_price |-> Some(4), stop_loss |-> Some(3), take_profit |-> Some(6),
       position_size |-> Some(1)],
      [entry_price |-> Some(4), stop_loss |-> Some(5), take_profit |-> Some(2),
       position_size |-> Some(1)],
      [entry_price |-> Some(0), stop_loss |-> Some(0), take_profit |-> Some(0),
       position_size |-> Some(0)] }

\* The arguments of one analyze_trade_plan call.
AnalyzerInputs ==
    { [ticker |-> "AAPL",
       entry_price |-> q.entry_price, stop_loss |-> q.stop_loss,
       take_profit |-> q.take_profit, position_size |-> q.position_size,
       trade_direction |-> d, user_reasoning |-> r,
       market_analysis |-> m, technical_indicators |-> t, sentiment_data |-> sd] :
      q \in AnalyzerPlans, d \in Directions, r \in {EmptyText, FullText},
      m \in MarketAnalyses, t \in TechnicalIndicators, sd \in SentimentData }
    \cup
    { [ticker |-> "AAPL",
       entry_price |-> q.entry_price, stop_loss |-> q.stop_loss,
       take_profit |-> q.take_profit, position_size |-> q.position_size,
       trade_direction |-> d, user_reasoning |-> r,
       market_analysis |-> None, technical_indicators |-> None, sentiment_data |-> None] :
      q \in AnalyzerPlans, d \in Directions, r \in {EmotionalText, ShortText} }

InitAnalyzer ==
    /\ plan \in AnalyzerInputs
    /\ SessionInit

\* strategy_analyzer.analyze_trade_plan(a...) on a StrategyAnalyzer: the result is
\* appended to analysis_history and returned.
AnalyzerStep(a) ==
    /\ ret' = [op |-> "StrategyAnalyzer.analyze_trade_plan", args |-> a,
               value |-> AnalyzeTradePlan(a.ticker, a, a.market_analysis,
                                          a.technical_indicators, a.sentiment_data)]
    /\ analysis_history' = analysis_history + 1
    /\ UNCHANGED <<current_context, conversation_history, validation_history, frame>>

\* A direct call strategy_analyzer.analyze_trade_plan(plan...).
AnalyzerCall ==
    /\ analysis_history < MaxAudit
    /\ AnalyzerStep(plan)
    /\ UNCHANGED plan

NextAnalyzer == AnalyzerCall

SpecAnalyzer == InitAnalyzer /\ [][NextAnalyzer]_vars

----------------------------------------------------------------------------
(* TradingCoachAgent *)

\* self.current_context.get(key): None when the key is missing
CtxGet(ctx, key) == IF key \in DOMAIN ctx THEN ctx[key] ELSE None

\* market_analysis or {}
OrEmpty(d) == IF Supplied(d) THEN d ELSE EmptyDict

\* Mutant: an omitted analysis keeps what the previous context held.
NewContextOverOld(a) ==
    LET Kept(key) == IF Supplied(a[key]) THEN a[key]
                     ELSE IF key \in DOMAIN current_context THEN current_context[key]
                     ELSE EmptyDict
    IN  [ticker |-> a.ticker,
         current_price |-> a.current_price,
         market_analysis |-> Kept("market_analysis"),
         technical_analysis |-> Kept("technical_analysis"),
         sentiment_analysis |-> Kept("sentiment_analysis"),
         fundamental_analysis |-> Kept("fundamental_analysis"),
         generated_signal |-> Kept("generated_signal"),
         timestamp |-> "{}"]

\* The dict set_context stores.
NewContext(a) ==
    [ticker |-> a.ticker,
     current_price |-> a.current_price,
     market_analysis |-> OrEmpty(a.market_analysis),
     technical_analysis |-> OrEmpty(a.technical_analysis),
     sentiment_analysis |-> OrEmpty(a.sentiment_analysis),
     fundamental_analysis |-> OrEmpty(a.fundamental_analysis),
     generated_signal |-> OrEmpty(a.generated_signal),
     timestamp |-> "{}"]

\* Mutant: the CAUTION band closed at 60.
DetermineVerdictInclusive(severity, confidence_score) ==
    IF severity = "CRITICAL" THEN "REJECTED"
    ELSE IF confidence_score < 40 THEN "REJECTED"
    ELSE IF severity = "WARNING" \/ confidence_score <= 60 THEN "CAUTION"
    ELSE "APPROVED"

\* _determine_verdict
DetermineVerdict(severity, confidence_score) ==
    IF severity = "CRITICAL" THEN "REJECTED"
    ELSE IF confidence_score < 40 THEN "REJECTED"
    ELSE IF severity = "WARNING" \/ confidence_score < 60 THEN "CAUTION"
    ELSE "APPROVED"

\* Mutant: the flag taken from the score alone.
CanExecuteOnScore(risk_validation, strategy_analysis) ==
    strategy_analysis.confidence_score >= 50

\* Mutant: confidence_score > 50.
CanExecuteStrict(risk_validation, strategy_analysis) ==
    risk_validation.can_execute /\ strategy_analysis.confidence_score > 50

\* risk_validation["can_execute"] and strategy_analysis["confidence_score"] >= 50
CanExecute(risk_validation, strategy_analysis) ==
    risk_validation.can_execute /\ strategy_analysis.confidence_score >= 50

\* current_price=self.current_context.get("current_price", entry_price)
CurrentPriceArg(ctx, p) ==
    IF "current_price" \in DOMAIN ctx THEN Some(ctx["current_price"]) ELSE p.entry_price

\* The arguments validate_trade_plan hands to StrategyAnalyzer.analyze_trade_plan.
AnalyzerArgs(ctx, p) ==
    [ticker |-> Get(ctx, "ticker", "UNKNOWN"),
     entry_price |-> p.entry_price, stop_loss |-> p.stop_loss,
     take_profit |-> p.take_profit, position_size |-> p.position_size,
     trade_direction |-> p.trade_direction, user_reasoning |-> p.user_reasoning,
     market_analysis |-> CtxGet(ctx, "market_analysis"),
     technical_indicators |-> CtxGet(ctx, "technical_analysis"),
     sentiment_data |-> CtxGet(ctx, "sentiment_analysis")]

\* validation_result: the dict compiled from the two results, the dangerous
\* patterns and the plan, with the ticker read from the context at that point.
CompileResult(p, risk_validation, strategy_analysis, ticker) ==
    [can_execute |-> CanExecute(risk_validation, strategy_analysis),
     overall_verdict |-> DetermineVerdict(risk_validation.severity,
                                          strategy_analysis.confidence_score),
     risk_validation |-> risk_validation,
     strategy_analysis |-> strategy_analysis,
     dangerous_patterns |-> DetectDangerousPatterns(p.user_reasoning),
     trade_plan |-> [ticker |-> ticker,
                     direction |-> p.trade_direction,
                     entry |-> p.entry_price,
                     stop_loss |-> p.stop_loss,
                     take_profit |-> p.take_profit,
                     position_size |-> p.position_size,
                     account_size |-> p.account_size]]

\* TradingCoachAgent.validate_trade_plan, once the risk validation has returned,
\* when the context stays the same to the end of the call.
CombinedResult(ctx, p, risk_validation) ==
    CompileResult(p, risk_validation,
                  AnalyzeTradePlan(Get(ctx, "ticker", "UNKNOWN"), p,
                                   CtxGet(ctx, "market_analysis"),
                                   CtxGet(ctx, "technical_analysis"),
                                   CtxGet(ctx, "sentiment_analysis")),
                  GetOpt(ctx, "ticker"))

\* calculate_position_size: abs(entry_price - stop_loss) on a None entry, and
\* (position_value / account_size) on a zero account, raise.
PositionSizeError(entry, stop, account_size) ==
    IF IsNone(entry) THEN "TypeError"
    ELSE IF account_size = 0 THEN "ZeroDivisionError"
    ELSE "none"

\* dollar_risk = account_size * (risk_percent / 100) is computed in doubles:
\* risk_percent / 100 is rounded first, and for these arguments the product
\* falls just below the exact account_size * risk_percent / 100
\* (100 * (29 / 100) = 28.999999999999996). For every other account size and
\* percentage of the model the double product is exact.
DollarRiskRoundsDown(account_size, risk_percent) ==
    <<account_size, risk_percent>> \in {<<100, 29>>}

\* position_size = int(dollar_risk / risk_per_share): the floor of the exact
\* quotient, except that a dollar_risk rounded down misses a quotient that is a
\* whole number by one.
RecommendedSize(account_size, risk_percent, risk_per_share) ==
    LET exact == (account_size * risk_percent) \div (100 * risk_per_share)
    IN  IF /\ DollarRiskRoundsDown(account_size, risk_percent)
           /\ (account_size * risk_percent) % (100 * risk_per_share) = 0
        THEN exact - 1
        ELSE exact

\* calculate_position_size; risk_percent is a whole percentage, dollar_risk is
\* kept in hundredths of a unit (its exact value).
PositionSize(entry, stop, account_size, risk_percent) ==
    IF IsNone(stop) \/ entry = stop
    THEN [raised |-> FALSE, error |-> "Invalid stop loss. Cannot calculate position size."]
    ELSE IF PositionSizeError(entry, stop, account_size) # "none"
    THEN [raised |-> TRUE, error |-> PositionSizeError(entry, stop, account_size)]
    ELSE LET risk_per_share == Abs(Val(entry) - Val(stop))
             position_size == RecommendedSize(account_size, risk_percent, risk_per_share)
         IN  [raised |-> FALSE,
              error |-> "none",
              recommended_size |-> position_size,
              conservative_size |-> (position_size * 3) \div 4,
              aggressive_size |-> IF 2 * risk_percent < 5
                                  THEN (position_size * 5) \div 4
                                  ELSE position_size,
              risk_per_share |-> risk_per_share,
              dollar_risk_hundredths |-> account_size * risk_percent,
              risk_percent |-> risk_percent,
              position_value |-> position_size * Val(entry)]

\* _build_context_summary: the lines of the summary, one record per line
BuildContextSummary(ctx) ==
    IF DOMAIN ctx = {}
    THEN << [line |-> "No trading context loaded. Ask user to run analysis first."] >>
    ELSE LET market == Get(ctx, "market_analysis", EmptyDict)
             technical == Get(ctx, "technical_analysis", EmptyDict)
             signal == Get(ctx, "generated_signal", EmptyDict)
         IN  << [line |-> "Stock", ticker |-> Get(ctx, "ticker", "UNKNOWN"),
                 price |-> Get(ctx, "current_price", 0)] >>
             \o (IF Supplied(market)
                 THEN << [line |-> "Market Signal", signal |-> Get(market, "signal", "HOLD"),
                          confidence |-> Get(market, "confidence", 0)] >>
                 ELSE <<>>)
             \o (IF Supplied(technical)
                 THEN << [line |-> "Trend", trend |-> Get(technical, "trend", "NEUTRAL"),
                          support |-> Get(technical, "support", 0),
                          resistance |-> Get(technical, "resistance", 0)] >>
                 ELSE <<>>)
             \o (IF Supplied(signal)
                 THEN << [line |-> "Agent Recommendation",
                          action |-> Get(signal, "action", "HOLD"),
                          entry |-> Get(signal, "entry_price", 0),
                          stop |-> Get(signal, "stop_loss", 0),
                          target |-> Get(signal, "take_profit", 0)] >>
                 ELSE <<>>)

\* self.conversation_history[-10:]
LastTen(history) ==
    IF Len(history) <= 10 THEN history ELSE SubSeq(history, Len(history) - 9, Len(history))

\* HumanMessage for a user turn, AIMessage for any other
AsMessage(turn) ==
    [type |-> IF turn.role = "user" THEN "human" ELSE "ai", content |-> turn.content]

\* chat: the messages list handed to self.llm.invoke
BuildMessages(ctx, history, user_message) ==
    << [type |-> "system", content |-> "SYSTEM_PROMPT"],
       [type |-> "system", content |-> BuildContextSummary(ctx)] >>
    \o [i \in 1..Len(LastTen(history)) |-> AsMessage(LastTen(history)[i])]
    \o << [type |-> "human", content |-> user_message] >>

\* f"I apologize, but I encountered an error: {str(e)}"
Apology(error) ==
    CASE error = "timeout" -> "I apologize, but I encountered an error: timeout"
      [] OTHER -> "I apologize, but I encountered an error: "

\* try: response = self.llm.invoke(messages); coach_response = response.content
\* except Exception as e: coach_response = the apology
CoachResponse(outcome) ==
    IF outcome.failed THEN Apology(outcome.error) ELSE outcome.content

\* Mutant: only the reply is recorded.
RecordReplyOnly(history, user_message, coach_response) ==
    history \o << [role |-> "coach", content |-> coach_response] >>

\* Mutant: a failed model call leaves the exchange unrecorded.
RecordExchangeUnlessApology(history, user_message, coach_response) ==
    IF coach_response = Apology("timeout") THEN history
    ELSE history \o << [role |-> "user", content |-> user_message],
                       [role |-> "coach", content |-> coach_response] >>

\* chat: the two appends that follow the model call
RecordExchange(history, user_message, coach_response) ==
    history \o << [role |-> "user", content |-> user_message],
                  [role |-> "coach", content |-> coach_response] >>

\* Thousandths of a price level: the value of the key, or the default
\* current_price * permille / 1000.
LevelThousandths(technical, key, current_price, permille) ==
    IF key \in DOMAIN technical THEN technical[key] * 1000 ELSE current_price * permille

\* Mutant: the quotient taken whatever the risk.
RatioUnguarded(reward, risk) == [reward |-> reward, risk |-> risk]

\* rr_ratio = reward / risk if risk > 0 else 0, as the pair of its terms
RatioOrZero(reward, risk) ==
    IF risk > 0 THEN [reward |-> reward, risk |-> risk] ELSE [reward |-> 0, risk |-> 1]

\* suggest_optimal_entry; prices are kept in millionths of a unit
\* (thousandths of a level times the per-mille factor of the source).
SuggestOptimalEntry(ctx) ==
    LET technical == Get(ctx, "technical_analysis", EmptyDict)
        market == Get(ctx, "market_analysis", EmptyDict)
        current_price == Get(ctx, "current_price", 0)
        signal == Get(market, "signal", "HOLD")
        support == LevelThousandths(technical, "support", current_price, 970)
        resistance == LevelThousandths(technical, "resistance", current_price, 1030)
    IN  IF ~Supplied(technical) \/ ~Supplied(market)
        THEN [error |-> "Need technical and market analysis first"]
        ELSE IF signal = "BUY"
        THEN [direction |-> "LONG",
              optimal_entry |-> support * 1005,
              aggressive_entry |-> current_price * 1000000,
              conservative_entry |-> support * 998,
              stop_loss |-> support * 980,
              take_profit |-> resistance * 980,
              risk_reward_ratio |-> RatioOrZero(resistance * 980 - support * 1005,
                                                support * 1005 - support * 980)]
        ELSE IF signal = "SELL"
        THEN [direction |-> "SHORT",
              optimal_entry |-> resistance * 995,
              aggressive_entry |-> current_price * 1000000,
              conservative_entry |-> resistance * 1002,
              stop_loss |-> resistance * 1020,
              take_profit |-> support * 1020,
              risk_reward_ratio |-> RatioOrZero(resistance * 995 - support * 1020,
                                                resistance * 1020 - resistance * 995)]
        ELSE [direction |-> "HOLD"]

\* check_risk_reward(entry, stop, target, trade_direction), on numbers; each
\* branch of the risk and reward amounts is the absolute difference.
CheckRiskRewardResult(entry, stop, target, trade_direction) ==
    LET v == ValidateRiskReward(entry, stop, target, trade_direction)
    IN  [is_valid |-> v.is_valid,
         rr_reward |-> v.reward,
         rr_risk |-> v.risk,
         message |-> v.message,
         risk_amount |-> Abs(entry - stop),
         reward_amount |-> Abs(target - entry),
         trade_direction |-> trade_direction,
         recommendation |-> IF v.reward >= 2 * v.risk THEN "Excellent"
                            ELSE IF 2 * v.reward >= 3 * v.risk THEN "Acceptable"
                            ELSE "Poor"]

----------------------------------------------------------------------------
(* Inputs of the session specification *)

SolidText == [len |-> 55,
              has |-> {"breakout", "resistance", "volume", "stop", "support"}]

CoachPlans ==
    [entry_price : {None, Some(-1), Some(0), Some(4)},
     stop_loss : {None, Some(-1), Some(0), Some(3), Some(5)},
     take_profit : {None, Some(-1), Some(0), Some(2), Some(6)},
     position_size : {None, Some(-1), Some(0), Some(1)},
     account_size : {0, 100},
     trade_direction : Directions,
     user_reasoning : {EmptyText, SolidText}]
    \cup ScenarioPlans

BareContext ==
    [ticker |-> "AAPL", current_price |-> 4, market_analysis |-> None,
     technical_analysis |-> None, sentiment_analysis |-> None,
     fundamental_analysis |-> None, generated_signal |-> None]
BullishContext ==
    [ticker |-> "AAPL", current_price |-> 4,
     market_analysis |-> [signal |-> "BUY", confidence |-> 80],
     technical_analysis |-> [trend |-> "BULLISH", support |-> 4, resistance |-> 6, rsi |-> 40],
     sentiment_analysis |-> [overall_sentiment |-> "BULLISH", score |-> 1],
     fundamental_analysis |-> [pe_ratio |-> 20],
     generated_signal |-> [action |-> "BUY", entry_price |-> 4, stop_loss |-> 3,
                           take_profit |-> 6]]
BearishContext ==
    [ticker |-> "MSFT", current_price |-> 4,
     market_analysis |-> [signal |-> "SELL", confidence |-> 80],
     technical_analysis |-> [trend |-> "BEARISH", support |-> 2, resistance |-> 4, rsi |-> 60],
     sentiment_analysis |-> [overall_sentiment |-> "BEARISH", score |-> 0],
     fundamental_analysis |-> None, generated_signal |-> [action |-> "SELL"]]
MixedContext ==
    [ticker |-> "MSFT", current_price |-> 5,
     market_analysis |-> [signal |-> "HOLD"],
     technical_analysis |-> [trend |-> "NEUTRAL", rsi |-> 90],
     sentiment_analysis |-> [overall_sentiment |-> "BEARISH"],
     fundamental_analysis |-> None, generated_signal |-> None]
ContextArgs == {BareContext, BullishContext, BearishContext, MixedContext}

\* The chat inputs: what the user types, and what the model call does with it.
UserMessages == {"Is this a good entry?"}
LlmOutcomes == { [failed |-> FALSE, content |-> "Wait for a pullback to support."],
                 [failed |-> TRUE, error |-> "timeout"] }

\* The plan of the whole-session specification.
SessionPlans == {ScenarioA}

\* risk_percent: the default 2.0, one at or above the 2.5 cut of the aggressive
\* size, and one whose hundredth is not a double (29 / 100).
RiskPercents == {2, 3, 29}

----------------------------------------------------------------------------
(* The session: one TradingCoachAgent and the calls made on it *)

Init ==
    /\ plan \in CoachPlans
    /\ SessionInit

\* coach.set_context(...)
SetContext ==
    \E a \in ContextArgs :
        /\ current_context' = NewContext(a)
        /\ ret' = [op |-> "set_context", args |-> a]
        /\ UNCHANGED <<plan, conversation_history, validation_history, analysis_history,
                       frame>>

\* coach.validate_trade_plan(plan...): the risk validation runs first; an error
\* it raises propagates before anything else is recorded.
ValidateTradePlan ==
    /\ validation_history < MaxAudit
    /\ analysis_history < MaxAudit
    /\ LET risk_validation == RiskValidate(plan)
       IN  IF risk_validation.raised
           THEN /\ ret' = [op |-> "validate_trade_plan", raised |-> TRUE,
                           error |-> risk_validation.error]
                /\ UNCHANGED <<validation_history, analysis_history>>
           ELSE /\ ret' = [op |-> "validate_trade_plan", raised |-> FALSE,
                           value |-> CombinedResult(current_context, plan, risk_validation)]
                /\ validation_history' = validation_history + 1
                /\ analysis_history' = analysis_history + 1
    /\ UNCHANGED <<plan, current_context, conversation_history, frame>>

\* coach.calculate_position_size(plan.entry_price, plan.stop_loss, plan.account_size, rp)
CalculatePositionSize ==
    \E rp \in RiskPercents :
        /\ ret' = [op |-> "calculate_position_size", risk_percent |-> rp,
                   value |-> PositionSize(plan.entry_price, plan.stop_loss,
                                          plan.account_size, rp)]
        /\ UNCHANGED <<plan, current_context, conversation_history,
                       validation_history, analysis_history, frame>>

Next == SetContext \/ ValidateTradePlan \/ CalculatePositionSize

Spec == Init /\ [][Next]_vars

\* coach.check_risk_reward(plan.entry_price, plan.stop_loss, plan.take_profit,
\* plan.trade_direction), for a plan whose three prices are given
CheckRiskReward ==
    /\ plan.entry_price # None /\ plan.stop_loss # None /\ plan.take_profit # None
    /\ ret' = [op |-> "check_risk_reward",
               value |-> CheckRiskRewardResult(Val(plan.entry_price), Val(plan.stop_loss),
                                               Val(plan.take_profit), plan.trade_direction)]
    /\ UNCHANGED <<plan, current_context, conversation_history,
                   validation_history, analysis_history, frame>>

\* coach.suggest_optimal_entry()
SuggestOptimalEntryCall ==
    /\ ret' = [op |-> "suggest_optimal_entry", value |-> SuggestOptimalEntry(current_context)]
    /\ UNCHANGED <<plan, current_context, conversation_history,
                   validation_history, analysis_history, frame>>

\* coach.chat(user_message): the context summary and the message list are built,
\* the model is invoked once and answers or fails, then the user message and
\* the response are appended to the history. ret keeps what the model was
\* handed and the history as it stood when the model was invoked.
Chat ==
    \E user_message \in UserMessages, outcome \in LlmOutcomes :
        /\ Len(conversation_history) + 2 <= MaxTurns
        /\ LET messages == BuildMessages(current_context, conversation_history, user_message)
               coach_response == CoachResponse(outcome)
               history == RecordExchange(conversation_history, user_message, coach_response)
           IN  /\ conversation_history' = history
               /\ ret' = [op |-> "chat",
                          user_message |-> user_message,
                          llm_messages |-> messages,
                          llm_calls |-> 1,
                          llm_failed |-> outcome.failed,
                          history_at_invoke |-> conversation_history,
                          value |-> [response |-> coach_response,
                                     conversation_turn |-> Len(history) \div 2,
                                     context_available |-> DOMAIN current_context # {}]]
        /\ UNCHANGED <<plan, current_context, validation_history, analysis_history, frame>>

\* Mutant: the reset drops the context together with the history.
ResetEverything ==
    /\ conversation_history' = <<>>
    /\ current_context' = EmptyDict
    /\ ret' = [op |-> "reset_conversation"]
    /\ UNCHANGED <<plan, validation_history, analysis_history, frame>>

\* coach.reset_conversation()
ResetConversation ==
    /\ conversation_history' = <<>>
    /\ ret' = [op |-> "reset_conversation"]
    /\ UNCHANGED <<plan, current_context, validation_history, analysis_history, frame>>

\* coach.get_conversation_history()
GetConversationHistory ==
    /\ ret' = [op |-> "get_conversation_history", value |-> conversation_history]
    /\ UNCHANGED <<plan, current_context, conversation_history,
                   validation_history, analysis_history, frame>>

----------------------------------------------------------------------------
(* A whole session: every public operation of the coach, in any order *)

InitSession ==
    /\ plan \in SessionPlans
    /\ SessionInit

NextSession ==
    \/ SetContext
    \/ ValidateTradePlan
    \/ SuggestOptimalEntryCall
    \/ CalculatePositionSize
    \/ CheckRiskReward
    \/ Chat
    \/ ResetConversation
    \/ GetConversationHistory

SpecSession == InitSession /\ [][NextSession]_vars

----------------------------------------------------------------------------
(* validate_trade_plan with set_context running in another thread of the same
   session. self.current_context is read afresh at each use (lines 186, 192,
   199, 200, 201 and 215) and nothing holds a lock, so the other thread's
   assignment can land between any two of the reads. frame keeps what the
   running call has read so far. *)

InitConcurrent ==
    /\ plan \in SessionPlans
    /\ SessionInit

\* set_context in the other thread: the assignment of line 143
SetContextConcurrently ==
    \E a \in ContextArgs :
        /\ current_context' = NewContext(a)
        /\ UNCHANGED <<plan, conversation_history, validation_history, analysis_history,
                       ret, frame>>

\* Step 1 (lines 180-188): the current price is read and the risk validation runs.
ValidateRiskStep ==
    /\ frame.pc = "idle"
    /\ validation_history < MaxAudit
    /\ analysis_history < MaxAudit
    /\ LET risk_validation == RiskValidate(plan)
       IN  IF risk_validation.raised
           THEN /\ ret' = [op |-> "validate_trade_plan", raised |-> TRUE,
                           error |-> risk_validation.error]
                /\ UNCHANGED <<validation_history, frame>>
           ELSE /\ ret' = NoCall
                /\ frame' = [pc |-> "ticker",
                             current_price |-> CurrentPriceArg(current_context, plan),
                             risk_validation |-> risk_validation]
                /\ validation_history' = validation_history + 1
    /\ UNCHANGED <<plan, current_context, conversation_history, analysis_history>>

\* frame with one more value read from the context
Having(f, key, value, next_pc) ==
    [k \in DOMAIN f \cup {key} |->
        IF k = "pc" THEN next_pc ELSE IF k = key THEN value ELSE f[k]]

\* ticker=self.current_context.get("ticker", "UNKNOWN")  (line 192)
ValidateReadTicker ==
    /\ frame.pc = "ticker"
    /\ frame' = Having(frame, "ticker", Get(current_context, "ticker", "UNKNOWN"), "market")
    /\ UNCHANGED <<plan, current_context, conversation_history, validation_history,
                   analysis_history, ret>>

\* market_analysis=self.current_context.get("market_analysis")  (line 199)
ValidateReadMarket ==
    /\ frame.pc = "market"
    /\ frame' = Having(frame, "market_analysis",
                       CtxGet(current_context, "market_analysis"), "technical")
    /\ UNCHANGED <<plan, current_context, conversation_history, validation_history,
                   analysis_history, ret>>

\* technical_indicators=self.current_context.get("technical_analysis")  (line 200)
ValidateReadTechnical ==
    /\ frame.pc = "technical"
    /\ frame' = Having(frame, "technical_indicators",
                       CtxGet(current_context, "technical_analysis"), "sentiment")
    /\ UNCHANGED <<plan, current_context, conversation_history, validation_history,
                   analysis_history, ret>>

\* Step 2 (lines 191-202): the last argument is read and the analysis runs.
ValidateAnalyzeStep ==
    /\ frame.pc = "sentiment"
    /\ LET sentiment_data == CtxGet(current_context, "sentiment_analysis")
       IN  frame' = [pc |-> "compile",
                     current_price |-> frame.current_price,
                     risk_validation |-> frame.risk_validation,
                     analyzer_args |->
                         [ticker |-> frame.ticker,
                          entry_price |-> plan.entry_price, stop_loss |-> plan.stop_loss,
                          take_profit |-> plan.take_profit,
                          position_size |-> plan.position_size,
                          trade_direction |-> plan.trade_direction,
                          user_reasoning |-> plan.user_reasoning,
                          market_analysis |-> frame.market_analysis,
                          technical_indicators |-> frame.technical_indicators,
                          sentiment_data |-> sentiment_data],
                     strategy_analysis |->
                         AnalyzeTradePlan(frame.ticker, plan, frame.market_analysis,
                                          frame.technical_indicators, sentiment_data)]
    /\ analysis_history' = analysis_history + 1
    /\ UNCHANGED <<plan, current_context, conversation_history, validation_history, ret>>

\* Step 3 and the result (lines 205-225): the ticker is read once more.
ValidateCompileStep ==
    /\ frame.pc = "compile"
    /\ ret' = [op |-> "validate_trade_plan", raised |-> FALSE,
               risk_args |-> RiskArgs(plan, frame.current_price),
               analyzer_args |-> frame.analyzer_args,
               value |-> CompileResult(plan, frame.risk_validation, frame.strategy_analysis,
                                       GetOpt(current_context, "ticker"))]
    /\ frame' = Idle
    /\ UNCHANGED <<plan, current_context, conversation_history, validation_history,
                   analysis_history>>

NextConcurrent ==
    \/ SetContextConcurrently
    \/ ValidateRiskStep
    \/ ValidateReadTicker
    \/ ValidateReadMarket
    \/ ValidateReadTechnical
    \/ ValidateAnalyzeStep
    \/ ValidateCompileStep

SpecConcurrent == InitConcurrent /\ [][NextConcurrent]_vars

----------------------------------------------------------------------------
(* One RiskValidator and one StrategyAnalyzer called again and again, for the
   same and for different plans, in any order *)

\* Plans for the validator: the three scenarios, Scenario A told with another
\* reasoning (the same validator arguments), and an account of 0 (the call raises).
AuditRiskPlans ==
    ScenarioPlans \cup { [ScenarioA EXCEPT !.user_reasoning = FullText],
                        [ScenarioA EXCEPT !.account_size = 0] }

\* Arguments for the analyzer: scenarios under no context and under two contexts.
AuditAnalyzerInputs ==
    { AnalyzerArgs(EmptyDict, ScenarioA),
      AnalyzerArgs(NewContext(BullishContext), ScenarioA),
      AnalyzerArgs(NewContext(BearishContext), ScenarioB),
      AnalyzerArgs(NewContext(MixedContext), ScenarioC) }

InitAudit ==
    /\ plan \in AuditRiskPlans
    /\ SessionInit

\* risk_validator.validate_trade_plan(p...) for any of the plans
AuditRiskCall ==
    \E p \in AuditRiskPlans :
        /\ validation_history < MaxCalls
        /\ RiskValidatorStep(p)
        /\ plan' = p

\* strategy_analyzer.analyze_trade_plan(a...) for any of the arguments
AuditAnalyzerCall ==
    \E a \in AuditAnalyzerInputs :
        /\ analysis_history < MaxCalls
        /\ AnalyzerStep(a)
        /\ plan' = a

NextAudit == AuditRiskCall \/ AuditAnalyzerCall

SpecAudit == InitAudit /\ [][NextAudit]_vars

----------------------------------------------------------------------------
(* The dangerous-pattern scan next to the validation of plans that tell their
   reasoning in different words *)

\* Reasoning texts: none, each table phrase alone, and mixtures with other words.
PatternTexts ==
    {EmptyText, SolidText, EmotionalText}
    \cup { [len |-> 20, has |-> {DangerousPatternTable[i].pattern}] :
             i \in 1..Len(DangerousPatternTable) }

\* Descriptions as written: the same, and each table phrase in capitals.
Descriptions ==
    PatternTexts
    \cup { [len |-> 20, has |-> {}, shouted |-> {DangerousPatternTable[i].pattern}] :
             i \in 1..Len(DangerousPatternTable) }
    \cup { [len |-> 40, has |-> {"hope", "stop"}, shouted |-> {"all in"}] }

PatternPlans ==
    { [q EXCEPT !.user_reasoning = r] : q \in ScenarioPlans, r \in PatternTexts }

InitPatterns ==
    /\ plan \in PatternPlans
    /\ SessionInit

\* risk_validator.detect_dangerous_patterns(description)
DetectDangerousPatternsCall ==
    \E description \in Descriptions :
        /\ ret' = [op |-> "detect_dangerous_patterns", args |-> description,
                   value |-> DetectDangerousPatterns(Lower(description))]
        /\ UNCHANGED <<plan, current_context, conversation_history,
                       validation_history, analysis_history, frame>>

NextPatterns == SetContext \/ ValidateTradePlan \/ DetectDangerousPatternsCall

SpecPatterns == InitPatterns /\ [][NextPatterns]_vars

----------------------------------------------------------------------------
(* suggest_optimal_entry under every kind of context *)

\* market_analysis: none, each signal, and a dict without a signal.
EntryMarkets ==
    {None, [confidence |-> 80]} \cup [signal : {"BUY", "SELL", "HOLD"}]

\* technical_analysis: none, a dict without levels (the defaults 0.97 and 1.03
\* of the current price apply), and levels that are negative, zero, apart,
\* close together (40 and 41) or crossed.
EntryTechnicals ==
    {None, [trend |-> "NEUTRAL"], [trend |-> "BULLISH", support |-> 40]}
    \cup [support : {-1, 0, 2, 40}, resistance : {3, 41, 60}]

EntryContextArgs ==
    [ticker : {"AAPL"}, current_price : {0, 50},
     market_analysis : EntryMarkets, technical_analysis : EntryTechnicals,
     sentiment_analysis : {None}, fundamental_analysis : {None},
     generated_signal : {None}]

InitEntry ==
    /\ plan \in SessionPlans
    /\ SessionInit

\* coach.set_context(...) with any of the contexts above
SetContextForEntry ==
    \E a \in EntryContextArgs :
        /\ current_context' = NewContext(a)
        /\ ret' = [op |-> "set_context", args |-> a]
        /\ UNCHANGED <<plan, conversation_history, validation_history, analysis_history,
                       frame>>

NextEntry == SetContextForEntry \/ SuggestOptimalEntryCall

SpecEntry == InitEntry /\ [][NextEntry]_vars

----------------------------------------------------------------------------
(* check_risk_reward on its own: every positive entry, stop and target *)

PositivePrices == {Some(v) : v \in 1..MaxPrice}

RiskRewardPlans ==
    [entry_price : PositivePrices, stop_loss : PositivePrices, take_profit : PositivePrices,
     position_size : {Some(1)}, account_size : {100},
     trade_direction : Directions, user_reasoning : {EmptyText}]

InitRiskReward ==
    /\ plan \in RiskRewardPlans
    /\ SessionInit

NextRiskReward == CheckRiskReward

SpecRiskReward == InitRiskReward /\ [][NextRiskReward]_vars

----------------------------------------------------------------------------
(* The verdict table on its own: every severity and every score *)

Severities == {"SAFE", "WARNING", "CRITICAL"}
Scores == 0..100

InitVerdict ==
    /\ plan = ScenarioA
    /\ SessionInit

\* coach._determine_verdict({"severity": sev}, {"confidence_score": score})
DetermineVerdictCall ==
    \E sev \in Severities, score \in Scores :
        /\ ret' = [op |-> "_determine_verdict", severity |-> sev, confidence_score |-> score,
                   value |-> DetermineVerdict(sev, score)]
        /\ UNCHANGED <<plan, current_context, conversation_history,
                       validation_history, analysis_history, frame>>

NextVerdict == DetermineVerdictCall

SpecVerdict == InitVerdict /\ [][NextVerdict]_vars

----------------------------------------------------------------------------
(* The combined result on its own: every severity and every score *)

\* The result RiskValidator.validate_trade_plan compiles for a severity.
RiskResultOf(sev) == [severity |-> sev, can_execute |-> sev # "CRITICAL"]

\* validation_result compiled from a risk validation of severity sev and a
\* strategy analysis of the given score (lines 207-223).
CompileCall ==
    \E sev \in Severities, score \in Scores :
        /\ ret' = [op |-> "validation_result", severity |-> sev, confidence_score |-> score,
                   value |-> CompileResult(plan, RiskResultOf(sev),
                                           [confidence_score |-> score], "AAPL")]
        /\ UNCHANGED <<plan, current_context, conversation_history,
                       validation_history, analysis_history, frame>>

NextCombined == CompileCall \/ DetermineVerdictCall

SpecCombined == InitVerdict /\ [][NextCombined]_vars

----------------------------------------------------------------------------
(* Properties *)

CountIssue(seq, code) == Cardinality({i \in 1..Len(seq) : seq[i].issue = code})
HasIssue(seq, code) == \E i \in 1..Len(seq) : seq[i].issue = code
CountApproval(seq, aspect) == Cardinality({i \in 1..Len(seq) : seq[i].aspect = aspect})
HasWeakness(seq, text) == \E i \in 1..Len(seq) : seq[i].text = text
SevRank(sev) == IF sev = "SAFE" THEN 0 ELSE IF sev = "WARNING" THEN 1 ELSE 2

\* A plan field is present when it is neither None nor 0 (the test the code applies).
Present(x) == x # None /\ x # Some(0)
AllPresent(p) ==
    Present(p.entry_price) /\ Present(p.stop_loss) /\ Present(p.take_profit)
    /\ Present(p.position_size)
\* None, zero or negative
Defective(x) == x = None \/ x[1] <= 0

CoachReturned == ret.op = "validate_trade_plan" /\ ~ret.raised
RiskCalled == ret.op = "RiskValidator.validate_trade_plan"
RiskReturned == RiskCalled /\ ~ret.value.raised

\* C1: a plan without a stop loss is always rejected by validate_trade_plan:
\* risk severity CRITICAL, can_execute false, verdict REJECTED, whatever the
\* other fields, the context and the strategy score.
C1_NoStopLossRejected ==
    (ret.op = "validate_trade_plan" /\ plan.stop_loss = None) =>
        /\ ~ret.raised
        /\ ret.value.risk_validation.severity = "CRITICAL"
        /\ ~ret.value.risk_validation.can_execute
        /\ ~ret.value.can_execute
        /\ ret.value.overall_verdict = "REJECTED"

\* C1 witness: a plan without a stop loss whose strategy score is high is rejected.
C1_Witness ==
    /\ CoachReturned
    /\ plan.stop_loss = None
    /\ ret.value.strategy_analysis.confidence_score >= 60
    /\ ret.value.overall_verdict = "REJECTED"

\* C2: the verdict is decided by severity and score alone, by the precedence
\* CRITICAL -> REJECTED; score < 40 -> REJECTED; WARNING or score < 60 -> CAUTION;
\* otherwise APPROVED.
C2_VerdictPrecedence ==
    ret.op = "_determine_verdict" =>
        ret.value = CASE ret.severity = "CRITICAL" -> "REJECTED"
                      [] ret.severity # "CRITICAL" /\ ret.confidence_score < 40 -> "REJECTED"
                      [] ret.severity # "CRITICAL" /\ ret.confidence_score >= 40
                         /\ (ret.severity = "WARNING" \/ ret.confidence_score < 60) -> "CAUTION"
                      [] OTHER -> "APPROVED"

\* C2 witness: a WARNING severity caps a perfect score at CAUTION.
C2_Witness ==
    /\ ret.op = "_determine_verdict"
    /\ ret.severity = "WARNING"
    /\ ret.confidence_score = 100
    /\ ret.value = "CAUTION"

\* C3: the combined can_execute is true exactly when the risk validation can
\* execute (severity is not CRITICAL) and the confidence score is at least 50.
C3_CanExecute ==
    CoachReturned =>
        /\ ret.value.risk_validation.can_execute
               = (ret.value.risk_validation.severity # "CRITICAL")
        /\ ret.value.can_execute
               = (/\ ret.value.risk_validation.severity # "CRITICAL"
                  /\ ret.value.strategy_analysis.confidence_score >= 50)

\* C3 witness: the risk validation allows execution and the score of exactly 50
\* is enough.
C3_Witness ==
    /\ CoachReturned
    /\ ret.value.risk_validation.can_execute
    /\ ret.value.strategy_analysis.confidence_score = 50
    /\ ret.value.can_execute

\* C4: at the end of a validation severity is CRITICAL iff there are issues,
\* WARNING iff there are warnings and no issues, SAFE otherwise; can_execute is
\* (severity # CRITICAL); and severity never decreases from rule to rule.
C4_SeverityAggregation ==
    RiskReturned =>
        LET r == ret.value
        IN  /\ (r.severity = "CRITICAL") = (Len(r.issues) > 0)
            /\ (r.severity = "WARNING") = (Len(r.issues) = 0 /\ Len(r.warnings) > 0)
            /\ (r.severity = "SAFE") = (Len(r.issues) = 0 /\ Len(r.warnings) = 0)
            /\ r.can_execute = (r.severity # "CRITICAL")
            /\ \A i \in 1..(Len(r.trace) - 1) : SevRank(r.trace[i]) <= SevRank(r.trace[i + 1])

\* C4 witness: a warning recorded after a critical issue leaves severity CRITICAL.
C4_Witness ==
    /\ RiskReturned
    /\ HasIssue(ret.value.issues, "POOR RISK-REWARD RATIO")
    /\ HasIssue(ret.value.warnings, "LARGE POSITION SIZE")
    /\ ret.value.severity = "CRITICAL"

\* C5: for a LONG plan with a valid entry and any non-None stop and target, a
\* stop at or above entry gives INVALID STOP LOSS PLACEMENT, a target at or below
\* entry gives INVALID TAKE PROFIT PLACEMENT, so no placement issue means
\* stop < entry < target; mirrored for SHORT.
C5_PlacementRequired ==
    (/\ RiskReturned
     /\ plan.account_size > 0
     /\ plan.entry_price # None /\ plan.stop_loss # None /\ plan.take_profit # None
     /\ Val(plan.entry_price) > 0) =>
        LET e == Val(plan.entry_price)
            s == Val(plan.stop_loss)
            t == Val(plan.take_profit)
            badStop == HasIssue(ret.value.issues, "INVALID STOP LOSS PLACEMENT")
            badTarget == HasIssue(ret.value.issues, "INVALID TAKE PROFIT PLACEMENT")
        IN  /\ plan.trade_direction = "LONG" =>
                   /\ (s >= e) => badStop
                   /\ (t <= e) => badTarget
                   /\ (~badStop /\ ~badTarget) => (s < e /\ e < t)
            /\ plan.trade_direction = "SHORT" =>
                   /\ (s <= e) => badStop
                   /\ (t >= e) => badTarget
                   /\ (~badStop /\ ~badTarget) => (t < e /\ e < s)

NoneOrPositive(x) == x = None \/ x[1] > 0
WellFormed(p) ==
    /\ NoneOrPositive(p.entry_price) /\ NoneOrPositive(p.stop_loss)
    /\ NoneOrPositive(p.take_profit) /\ NoneOrPositive(p.position_size)

\* C9: with a zero risk per share (entry equal to stop) or a zero account size,
\* validate_trade_plan and calculate_position_size return a result, an error
\* payload where the position-size math is undefined, and never raise (stated
\* for plans whose given prices and size are positive).
C9_UndefinedReported ==
    /\ (/\ ret.op = "validate_trade_plan"
        /\ WellFormed(plan)
        /\ (plan.account_size = 0
            \/ (plan.entry_price # None /\ plan.entry_price = plan.stop_loss))) =>
           ~ret.raised
    /\ (/\ ret.op = "calculate_position_size"
        /\ WellFormed(plan)
        /\ plan.entry_price # None /\ plan.stop_loss # None
        /\ (plan.account_size = 0 \/ plan.entry_price = plan.stop_loss)) =>
           /\ ~ret.value.raised
           /\ ret.value.error # "none"

\* C10: for a positive account size validate_trade_plan returns a structured
\* result whatever the plan fields (None, zero, negative or positive) and the
\* direction; every defect of the plan shows as an issue or a weakness.
C10_StructuredResult ==
    (ret.op = "validate_trade_plan" /\ plan.account_size > 0) =>
        /\ ~ret.raised
        /\ LET v == ret.value
               issues == v.risk_validation.issues
               weaknesses == v.strategy_analysis.weaknesses
           IN  /\ v.overall_verdict \in {"APPROVED", "CAUTION", "REJECTED"}
               /\ v.can_execute \in BOOLEAN
               /\ v.risk_validation.severity \in Severities
               /\ v.strategy_analysis.confidence_score \in 0..100
               /\ Defective(plan.entry_price) =>
                      /\ HasIssue(issues, "INVALID ENTRY PRICE")
                      /\ HasWeakness(weaknesses, "Missing entry price")
               /\ plan.stop_loss = None => HasIssue(issues, "NO STOP LOSS")
               /\ Defective(plan.stop_loss) => HasWeakness(weaknesses, "No stop loss (CRITICAL)")
               /\ Defective(plan.take_profit) => HasWeakness(weaknesses, "No profit target")
               /\ Defective(plan.position_size) =>
                      HasWeakness(weaknesses, "Position size not specified")

\* C10 witness: the maximally broken plan (every optional field None) returns a
\* rejection.
C10_Witness ==
    /\ CoachReturned
    /\ plan.entry_price = None /\ plan.stop_loss = None
    /\ plan.take_profit = None /\ plan.position_size = None
    /\ plan.account_size > 0
    /\ ret.value.overall_verdict = "REJECTED"

\* The sum of the sub-scores of an analyzer call, before normalisation.
RawScore(a) ==
    AssessCompleteness(a.entry_price, a.stop_loss, a.take_profit, a.position_size,
                       a.user_reasoning).score
    + (IF Supplied(a.market_analysis)
       THEN AssessMarketAlignment(a.trade_direction, a.market_analysis).score ELSE 0)
    + (IF Supplied(a.technical_indicators)
       THEN AssessTechnicalSetup(a.trade_direction, a.entry_price, a.stop_loss,
                                 a.take_profit, a.technical_indicators).score ELSE 0)
    + (IF Supplied(a.sentiment_data)
       THEN AssessSentimentAlignment(a.trade_direction, a.sentiment_data).score ELSE 0)
    + AssessReasoningQuality(a.user_reasoning).score

AnalyzerCalled == ret.op = "StrategyAnalyzer.analyze_trade_plan"

\* C11: analyze_trade_plan returns an integer confidence_score in 0..100 for
\* every plan (fields present or absent), direction, subset of analyses with
\* any indicator values, and reasoning text; a sum of sub-scores above 100 is
\* returned as 100.
C11_ScoreInRange ==
    AnalyzerCalled =>
        /\ ret.value.confidence_score \in 0..100
        /\ RawScore(ret.args) <= 100 => ret.value.confidence_score = RawScore(ret.args)
        /\ RawScore(ret.args) > 100 => ret.value.confidence_score = 100

\* C11 witness: every positive signal present, the sub-scores sum to 115 and the
\* returned score is 100.
C11_Witness ==
    /\ AnalyzerCalled
    /\ RawScore(ret.args) = 115
    /\ ret.value.confidence_score = 100

\* C12: calculate_position_size returns an error payload and no sizes when the
\* stop is absent or equals entry; otherwise it returns
\* recommended_size = floor(account_size * risk_pct / 100 / |entry - stop|),
\* conservative_size = floor(0.75 * recommended_size), aggressive_size =
\* floor(1.25 * recommended_size) when risk_pct < 2.5 and recommended_size
\* otherwise, and recommended_size * |entry - stop| is within the dollar risk
\* budget (stated for a positive account size and positive given prices).
C12_PositionSizing ==
    (/\ ret.op = "calculate_position_size"
     /\ plan.entry_price # None
     /\ plan.account_size > 0
     /\ WellFormed(plan)) =>
        LET v == ret.value
            rp == ret.risk_percent
        IN  IF plan.stop_loss = None \/ plan.stop_loss = plan.entry_price
            THEN /\ ~v.raised
                 /\ v.error # "none"
                 /\ DOMAIN v = {"raised", "error"}
            ELSE LET risk == Abs(Val(plan.entry_price) - Val(plan.stop_loss))
                     size == (plan.account_size * rp) \div (100 * risk)
                 IN  /\ ~v.raised
                     /\ v.error = "none"
                     /\ v.recommended_size = size
                     /\ v.conservative_size = (3 * size) \div 4
                     /\ v.aggressive_size = IF 2 * rp < 5 THEN (5 * size) \div 4 ELSE size
                     /\ v.recommended_size * risk * 100 <= plan.account_size * rp

\* C13: for positive entry, stop and target and every direction,
\* check_risk_reward reports is_valid = False exactly when validate_trade_plan
\* on the same prices and direction (positive size and account) records an
\* INVALID STOP LOSS PLACEMENT, INVALID TAKE PROFIT PLACEMENT or POOR
\* RISK-REWARD RATIO issue; with a valid placement the two agree on the ratio
\* band (below 1.5, 1.5 to below 2.0, 2.0 and above).
C13_MirrorsRiskValidator ==
    ret.op = "check_risk_reward" =>
        LET c == ret.value
            r == RiskValidate(plan)
            badStop == HasIssue(r.issues, "INVALID STOP LOSS PLACEMENT")
            badTarget == HasIssue(r.issues, "INVALID TAKE PROFIT PLACEMENT")
            poor == HasIssue(r.issues, "POOR RISK-REWARD RATIO")
            suboptimal == HasIssue(r.warnings, "SUBOPTIMAL RISK-REWARD")
            excellent == CountApproval(r.approvals, "Risk-Reward Ratio") = 1
        IN  /\ ~r.raised
            /\ (~c.is_valid) = (badStop \/ badTarget \/ poor)
            /\ (~badStop /\ ~badTarget) =>
                   /\ poor = (c.message = "R:R too low")
                   /\ suboptimal = (c.message = "R:R acceptable but suboptimal")
                   /\ excellent = (c.message = "Excellent R:R")

----------------------------------------------------------------------------
(* The chat session *)

ChatReturned == ret.op = "chat"
LastTurn(history) == history[Len(history)]
Exchange(user_message, coach_response) ==
    << [role |-> "user", content |-> user_message],
       [role |-> "coach", content |-> coach_response] >>

\* C14: a chat call whose model invocation fails returns the apology as its
\* response and grows the history by exactly the user message followed by the
\* apology; the chat or validate_trade_plan call that follows it returns what
\* it returns after a successful turn.
C14_FailedCallApologises ==
    [][ /\ (ret'.op = "chat" /\ ret'.llm_failed) =>
              /\ ret'.value.response = Apology("timeout")
              /\ conversation_history' =
                     conversation_history \o Exchange(ret'.user_message, Apology("timeout"))
              /\ ret'.value.conversation_turn = Len(conversation_history') \div 2
        /\ (ChatReturned /\ ret.llm_failed /\ ret'.op = "chat" /\ ~ret'.llm_failed) =>
              /\ ret'.value.response \in {o.content : o \in {x \in LlmOutcomes : ~x.failed}}
              /\ conversation_history' =
                     conversation_history \o Exchange(ret'.user_message, ret'.value.response)
              /\ ret'.value.conversation_turn = ret.value.conversation_turn + 1
        /\ (ChatReturned /\ ret.llm_failed /\ ret'.op = "validate_trade_plan") =>
              /\ ~ret'.raised
              /\ ret'.value = CombinedResult(current_context, plan, RiskValidate(plan))
      ]_vars

\* A successful chat whose previous exchange, still in the history, was a failed one.
C14_Witness ==
    /\ ChatReturned
    /\ ~ret.llm_failed
    /\ Len(conversation_history) >= 4
    /\ conversation_history[Len(conversation_history) - 2].content = Apology("timeout")
    /\ LastTurn(conversation_history).content = ret.value.response

\* C15: inside one chat call the user message is in the history before the
\* model is invoked: at the moment of the invocation the last turn of the
\* history is the current user message; the reply is appended after the model
\* returns, and the model is invoked exactly once.
C15_UserTurnRecordedBeforeInvoke ==
    ChatReturned =>
        /\ ret.llm_calls = 1
        /\ Len(ret.history_at_invoke) > 0
        /\ LastTurn(ret.history_at_invoke) = [role |-> "user", content |-> ret.user_message]
        /\ LastTurn(conversation_history) = [role |-> "coach", content |-> ret.value.response]

\* The conversation turns among the messages handed to the model: what follows
\* the system persona and the context summary.
TurnsGiven(messages) == SubSeq(messages, 3, Len(messages))

\* C16: the messages handed to the model are the system persona, the context
\* summary and no more than the 10 most recent conversation turns, in their
\* order; get_conversation_history returns the whole history, untruncated.
C16_WindowOfTen ==
    /\ ChatReturned =>
          LET conversation == ret.history_at_invoke
                                \o << [role |-> "user", content |-> ret.user_message] >>
              turns == TurnsGiven(ret.llm_messages)
              skipped == Len(conversation) - Len(turns)
          IN  /\ ret.llm_messages[1] = [type |-> "system", content |-> "SYSTEM_PROMPT"]
              /\ ret.llm_messages[2].type = "system"
              /\ turns = [i \in 1..Len(turns) |-> AsMessage(conversation[skipped + i])]
              /\ Len(turns) <= 10
    /\ ret.op = "get_conversation_history" => ret.value = conversation_history

\* C17: reset_conversation empties the conversation history and changes
\* nothing else: the context is the same, so validate_trade_plan and
\* suggest_optimal_entry return what they returned before; the call after the
\* reset sees an empty history and a chat reports conversation turn 1.
C17_ResetKeepsContext ==
    [][ /\ ret'.op = "reset_conversation" =>
              /\ conversation_history' = <<>>
              /\ current_context' = current_context
              /\ SuggestOptimalEntry(current_context') = SuggestOptimalEntry(current_context)
              /\ CombinedResult(current_context', plan', RiskValidate(plan'))
                    = CombinedResult(current_context, plan, RiskValidate(plan))
              /\ <<validation_history', analysis_history'>>
                    = <<validation_history, analysis_history>>
        /\ (ret.op = "reset_conversation" /\ ret'.op = "get_conversation_history") =>
              ret'.value = <<>>
        /\ (ret.op = "reset_conversation" /\ ret'.op = "chat") =>
              /\ ret'.value.conversation_turn = 1
              /\ TurnsGiven(ret'.llm_messages) = << [type |-> "human", content |-> ret'.user_message] >>
        /\ (ret.op = "reset_conversation" /\ ret'.op = "suggest_optimal_entry") =>
              ret'.value = SuggestOptimalEntry(current_context)
        /\ (ret.op = "reset_conversation" /\ ret'.op = "validate_trade_plan") =>
              ret'.value = CombinedResult(current_context, plan, RiskValidate(plan))
      ]_vars

\* A reset in a session that has a context with a technical analysis and has
\* validated a plan.
C17_Witness ==
    /\ ret.op = "reset_conversation"
    /\ conversation_history = <<>>
    /\ "support" \in DOMAIN CtxGet(current_context, "technical_analysis")
    /\ validation_history > 0

ContextKeys ==
    {"ticker", "current_price", "market_analysis", "technical_analysis",
     "sentiment_analysis", "fundamental_analysis", "generated_signal", "timestamp"}
AnalysisKeys ==
    {"market_analysis", "technical_analysis", "sentiment_analysis",
     "fundamental_analysis", "generated_signal"}

\* C18: the context changes only in set_context, which replaces it wholesale:
\* afterwards the ticker and the price are the call's, every analysis is the
\* one passed or empty when omitted, whatever the previous context held;
\* every other session operation leaves the context as it was.
C18_ContextReplacedWholesale ==
    [][ /\ current_context' # current_context => ret'.op = "set_context"
        /\ ret'.op # "set_context" => current_context' = current_context
        /\ ret'.op = "set_context" =>
              /\ DOMAIN current_context' = ContextKeys
              /\ current_context'.ticker = ret'.args.ticker
              /\ current_context'.current_price = ret'.args.current_price
              /\ \A key \in AnalysisKeys :
                    current_context'[key] =
                        IF ret'.args[key] = None THEN EmptyDict ELSE ret'.args[key]
      ]_vars

\* A set_context that omits analyses the previous context held, after the
\* other operations have run on that previous context.
C18_Witness ==
    /\ ret.op = "set_context"
    /\ ret.args.market_analysis = None
    /\ current_context.market_analysis = EmptyDict
    /\ current_context.generated_signal = EmptyDict
    /\ validation_history > 0
    /\ Len(conversation_history) > 0

----------------------------------------------------------------------------
(* Concurrency *)

\* Every context the session can hold.
SessionContexts == {EmptyDict} \cup {NewContext(a) : a \in ContextArgs}

\* C19: a validate_trade_plan call works on one context snapshot: the current
\* price handed to the risk validator, the ticker and the three analyses handed
\* to the strategy analyzer and the ticker of the result all come from one and
\* the same context, also when set_context runs concurrently.
C19_OneContextSnapshot ==
    (ret.op = "validate_trade_plan" /\ ~ret.raised) =>
        \E snapshot \in SessionContexts :
            /\ ret.risk_args = RiskArgs(plan, CurrentPriceArg(snapshot, plan))
            /\ ret.analyzer_args = AnalyzerArgs(snapshot, plan)
            /\ ret.value.trade_plan.ticker = GetOpt(snapshot, "ticker")
            /\ ret.value = CombinedResult(snapshot, plan, RiskValidate(plan))

----------------------------------------------------------------------------
(* Purity of the validator and the analyzer *)

RiskOp == "RiskValidator.validate_trade_plan"
AnalyzerOp == "StrategyAnalyzer.analyze_trade_plan"

----------------------------------------------------------------------------
(* The dangerous-pattern scan *)

\* The table phrases that occur in a description, in whatever case.
Occurring(description) == description.has \cup Shouted(description)

CountPattern(seq, pattern) == Cardinality({i \in DOMAIN seq : seq[i].pattern = pattern})

\* C21: the dangerous-pattern scan is advisory: the same plan told with any
\* other reasoning gets the same risk severity, issues, warnings and risk
\* can_execute; and the scan returns exactly one entry for every table phrase
\* that occurs in the description, in any case, and none for the others, so a
\* description whose only table phrase is "all in" yields one CRITICAL entry.
C21_PatternsAdvisory ==
    /\ (ret.op = "validate_trade_plan" /\ ~ret.raised) =>
          \A r \in PatternTexts :
              LET told_otherwise == RiskValidate([plan EXCEPT !.user_reasoning = r])
                  risk_validation == ret.value.risk_validation
              IN  /\ told_otherwise.severity = risk_validation.severity
                  /\ told_otherwise.issues = risk_validation.issues
                  /\ told_otherwise.warnings = risk_validation.warnings
                  /\ told_otherwise.can_execute = risk_validation.can_execute
    /\ ret.op = "detect_dangerous_patterns" =>
          /\ \A i \in 1..Len(DangerousPatternTable) :
                CountPattern(ret.value, DangerousPatternTable[i].pattern)
                    = IF DangerousPatternTable[i].pattern \in Occurring(ret.args)
                      THEN 1 ELSE 0
          /\ \A j \in DOMAIN ret.value :
                \E i \in 1..Len(DangerousPatternTable) : ret.value[j] = DangerousPatternTable[i]
          /\ ("all in" \in Occurring(ret.args)
                /\ \A i \in 1..Len(DangerousPatternTable) :
                      DangerousPatternTable[i].pattern \in Occurring(ret.args)
                          => DangerousPatternTable[i].pattern = "all in")
               => ret.value = << [pattern |-> "all in", severity |-> "CRITICAL"] >>

\* The scan of a description that says ALL IN in capitals among other words,
\* after a plan with dangerous wording has been validated.
C21_Witness ==
    /\ ret.op = "detect_dangerous_patterns"
    /\ ret.args.has = {}
    /\ Shouted(ret.args) = {"all in"}
    /\ Len(ret.value) = 1
    /\ validation_history > 0
    /\ plan.user_reasoning.has # {}

----------------------------------------------------------------------------
(* The strategy risk level *)

\* C22: the risk level follows from the final score and the weaknesses: HIGH
\* exactly when the missing-stop-loss weakness, the one tagged critical, is
\* present or the score is below 50; otherwise MEDIUM below 70, otherwise LOW.
\* So a plan with a stop loss and a score of 70 or more is LOW.
C22_RiskLevelFromScore ==
    AnalyzerCalled =>
        LET critical == HasWeakness(ret.value.weaknesses, "No stop loss (CRITICAL)")
            score == ret.value.confidence_score
        IN  ret.value.risk_level =
                IF critical \/ score < 50 THEN "HIGH"
                ELSE IF score < 70 THEN "MEDIUM"
                ELSE "LOW"

----------------------------------------------------------------------------
(* suggest_optimal_entry *)

SuggestReturned == ret.op = "suggest_optimal_entry"
NumericFields ==
    {"optimal_entry", "aggressive_entry", "conservative_entry", "stop_loss",
     "take_profit", "risk_reward_ratio"}

\* The levels the suggestion is built on, in units: the context's support and
\* resistance, or 0.97 and 1.03 of the current price (in thousandths).
SupportThousandths ==
    LET technical == current_context.technical_analysis
    IN  IF "support" \in DOMAIN technical THEN 1000 * technical.support
        ELSE 970 * current_context.current_price
ResistanceThousandths ==
    LET technical == current_context.technical_analysis
    IN  IF "resistance" \in DOMAIN technical THEN 1000 * technical.resistance
        ELSE 1030 * current_context.current_price

\* The ratio the suggestion reports for an entry, a stop and a target: reward
\* over risk, or 0 when the risk is not positive.
ReportedRatio(reward, risk) ==
    IF risk > 0 THEN [reward |-> reward, risk |-> risk] ELSE [reward |-> 0, risk |-> 1]

SignalOf(ctx) ==
    IF "signal" \in DOMAIN ctx.market_analysis THEN ctx.market_analysis.signal ELSE "HOLD"

\* C23: suggest_optimal_entry returns an error payload before any set_context
\* and when the context lacks the technical or the market analysis; otherwise
\* a LONG setup for BUY (entry 0.5% above support, stop 2% below support,
\* target 2% under resistance), the mirrored SHORT setup for SELL, each with
\* its reward over risk or 0 when the risk is not positive, and for any other
\* signal a HOLD recommendation without numeric fields.
C23_SuggestionBySignal ==
    SuggestReturned =>
        LET v == ret.value
            lacking == \/ DOMAIN current_context = {}
                       \/ DOMAIN current_context.technical_analysis = {}
                       \/ DOMAIN current_context.market_analysis = {}
        IN  IF lacking
            THEN DOMAIN v = {"error"}
            ELSE LET s == SupportThousandths
                     r == ResistanceThousandths
                 IN  CASE SignalOf(current_context) = "BUY" ->
                            /\ v.direction = "LONG"
                            /\ v.optimal_entry = 1005 * s
                            /\ v.stop_loss = 980 * s
                            /\ v.take_profit = 980 * r
                            /\ (s > 0 => v.stop_loss < 1000 * s /\ 1000 * s < v.optimal_entry)
                            /\ v.risk_reward_ratio =
                                  ReportedRatio(v.take_profit - v.optimal_entry,
                                                v.optimal_entry - v.stop_loss)
                       [] SignalOf(current_context) = "SELL" ->
                            /\ v.direction = "SHORT"
                            /\ v.optimal_entry = 995 * r
                            /\ v.stop_loss = 1020 * r
                            /\ v.take_profit = 1020 * s
                            /\ (r > 0 => v.optimal_entry < 1000 * r /\ 1000 * r < v.stop_loss)
                            /\ v.risk_reward_ratio =
                                  ReportedRatio(v.optimal_entry - v.take_profit,
                                                v.stop_loss - v.optimal_entry)
                       [] OTHER ->
                            /\ v.direction = "HOLD"
                            /\ DOMAIN v \cap (NumericFields \cup {"error"}) = {}

\* A BUY suggestion built on a support of 0: the risk is 0 and the ratio is
\* reported as 0.
C23_Witness ==
    /\ SuggestReturned
    /\ "direction" \in DOMAIN ret.value
    /\ ret.value.direction = "LONG"
    /\ ret.value.optimal_entry = ret.value.stop_loss
    /\ ret.value.risk_reward_ratio = [reward |-> 0, risk |-> 1]

\* C28: a numeric setup proposed by suggest_optimal_entry passes the
\* validator's placement rules: with a BUY or SELL signal and a positive
\* support below the resistance, stop_loss < optimal_entry < take_profit for
\* LONG, take_profit < optimal_entry < stop_loss for SHORT, and the reported
\* ratio is not negative.
C28_SuggestionPassesPlacement ==
    (/\ SuggestReturned
     /\ "optimal_entry" \in DOMAIN ret.value
     /\ 0 < SupportThousandths
     /\ SupportThousandths < ResistanceThousandths) =>
        LET v == ret.value
        IN  /\ v.direction = "LONG" =>
                  v.stop_loss < v.optimal_entry /\ v.optimal_entry < v.take_profit
            /\ v.direction = "SHORT" =>
                  v.take_profit < v.optimal_entry /\ v.optimal_entry < v.stop_loss
            /\ v.risk_reward_ratio.reward >= 0
            /\ v.risk_reward_ratio.risk > 0

----------------------------------------------------------------------------
(* Verdict and can_execute *)

\* C24: the verdict and the can_execute flag of one combined result agree:
\* APPROVED comes with can_execute true, REJECTED with can_execute false, for
\* every severity and every score; CAUTION goes with either.
C24_VerdictAgreesWithFlag ==
    ret.op = "validation_result" =>
        /\ ret.value.overall_verdict = "APPROVED" => ret.value.can_execute
        /\ ret.value.overall_verdict = "REJECTED" => ~ret.value.can_execute
        /\ ret.value.overall_verdict \in {"APPROVED", "REJECTED", "CAUTION"}

\* The lowest score that is APPROVED, with the flag true.
C24_Witness ==
    /\ ret.op = "validation_result"
    /\ ret.severity = "SAFE"
    /\ ret.confidence_score = 60
    /\ ret.value.overall_verdict = "APPROVED"
    /\ ret.value.can_execute

\* C25: a LONG or SHORT plan that validate_trade_plan approves has a stop loss
\* that is a positive price on the protective side of the entry: strictly
\* below the entry for LONG, strictly above it for SHORT.
C25_ApprovedHasProtectiveStop ==
    (/\ CoachReturned
     /\ ret.value.overall_verdict = "APPROVED"
     /\ plan.trade_direction \in {"LONG", "SHORT"}) =>
        /\ plan.stop_loss # None
        /\ plan.entry_price # None
        /\ Val(plan.stop_loss) > 0
        /\ plan.trade_direction = "LONG" => Val(plan.stop_loss) < Val(plan.entry_price)
        /\ plan.trade_direction = "SHORT" => Val(plan.stop_loss) > Val(plan.entry_price)

\* The plan has its four numbers, all positive, in the order its direction
\* asks for, a reward of at least twice the risk and at most 2% of a positive
\* account at risk.
SoundPlan(p) ==
    /\ p.trade_direction \in {"LONG", "SHORT"}
    /\ p.entry_price # None /\ p.stop_loss # None
    /\ p.take_profit # None /\ p.position_size # None
    /\ Val(p.entry_price) > 0 /\ Val(p.stop_loss) > 0
    /\ Val(p.take_profit) > 0 /\ Val(p.position_size) > 0
    /\ p.account_size > 0
    /\ p.trade_direction = "LONG" =>
          Val(p.stop_loss) < Val(p.entry_price) /\ Val(p.entry_price) < Val(p.take_profit)
    /\ p.trade_direction = "SHORT" =>
          Val(p.take_profit) < Val(p.entry_price) /\ Val(p.entry_price) < Val(p.stop_loss)
    /\ Abs(Val(p.take_profit) - Val(p.entry_price))
          >= 2 * Abs(Val(p.entry_price) - Val(p.stop_loss))
    /\ 100 * Val(p.position_size) * Abs(Val(p.entry_price) - Val(p.stop_loss))
          <= 2 * p.account_size

\* C26: a LONG or SHORT plan with the placement ordering, a ratio of at least
\* 2.0 and at most 2.0% of the account at risk, such as Scenario A, has risk
\* severity SAFE, and is APPROVED whenever its confidence score is at least 60.
C26_SoundPlanApproved ==
    (CoachReturned /\ SoundPlan(plan)) =>
        /\ ret.value.risk_validation.severity = "SAFE"
        /\ ret.value.strategy_analysis.confidence_score >= 60
              => ret.value.overall_verdict = "APPROVED"

----------------------------------------------------------------------------
(* The risk-reward fix *)

\* The plan with the target the validator proposes.
WithFixTarget(p) == [p EXCEPT !.take_profit = Some(FixTarget(p))]

\* C27: the target proposed for a POOR RISK-REWARD RATIO issue or a SUBOPTIMAL
\* RISK-REWARD warning is usable: the LONG or SHORT plan with that target
\* validates with a ratio of exactly 2.0 and without an INVALID TAKE PROFIT
\* PLACEMENT issue.
C27_FixTargetUsable ==
    (/\ RiskReturned
     /\ WellFormed(plan)
     /\ plan.trade_direction \in {"LONG", "SHORT"}
     /\ \/ HasIssue(ret.value.issues, "POOR RISK-REWARD RATIO")
        \/ HasIssue(ret.value.warnings, "SUBOPTIMAL RISK-REWARD")) =>
        LET fixed == WithFixTarget(plan)
            again == RiskValidate(fixed)
        IN  /\ ~again.raised
            /\ RewardPerShare(fixed) = 2 * RiskPerShare(fixed)
            /\ ~HasIssue(again.issues, "POOR RISK-REWARD RATIO")
            /\ ~HasIssue(again.warnings, "SUBOPTIMAL RISK-REWARD")
            /\ ~HasIssue(again.issues, "INVALID TAKE PROFIT PLACEMENT")

----------------------------------------------------------------------------
(* A session without analyses *)

\* No set_context yet, or the last one carried no market, technical or
\* sentiment analysis.
NoAnalyses ==
    \/ DOMAIN current_context = {}
    \/ /\ DOMAIN current_context.market_analysis = {}
       /\ DOMAIN current_context.technical_analysis = {}
       /\ DOMAIN current_context.sentiment_analysis = {}

\* C29: in a session without market, technical and sentiment analyses no plan
\* is APPROVED: the confidence score is at most 50 whatever the plan and its
\* reasoning, so the verdict is CAUTION at best.
C29_NoContextNoApproval ==
    (CoachReturned /\ NoAnalyses) =>
        /\ ret.value.strategy_analysis.confidence_score <= 50
        /\ ret.value.overall_verdict \in {"CAUTION", "REJECTED"}

\* The best case: a complete plan with solid reasoning scores 50 and gets
\* CAUTION after a set_context without analyses.
C29_Witness ==
    /\ CoachReturned
    /\ DOMAIN current_context # {}
    /\ NoAnalyses
    /\ ret.value.strategy_analysis.confidence_score = 50
    /\ ret.value.overall_verdict = "CAUTION"

----------------------------------------------------------------------------
(* The shape of the conversation history *)

\* Even length, user and coach in turn, starting with user.
Alternates(history) ==
    /\ Len(history) % 2 = 0
    /\ \A i \in 1..Len(history) :
          history[i].role = IF i % 2 = 1 THEN "user" ELSE "coach"

\* C30: with the operations executed one at a time, the conversation history
\* always has even length and alternates user, coach, starting with user; only
\* chat and reset_conversation change it; and the conversation_turn a chat
\* returns is the number of chat calls since the last reset: one more than
\* the turns counted before it, 1 on an empty history, which is what a reset
\* leaves.
C30_HistoryAlternates ==
    [][ /\ Alternates(conversation_history')
        /\ conversation_history' # conversation_history
              => ret'.op \in {"chat", "reset_conversation"}
        /\ ret'.op = "chat" =>
              /\ Len(conversation_history') = Len(conversation_history) + 2
              /\ ret'.value.conversation_turn = Len(conversation_history) \div 2 + 1
              /\ ret'.value.conversation_turn =
                    Cardinality({i \in 1..Len(conversation_history') :
                                   conversation_history'[i].role = "user"})
        /\ ret'.op = "reset_conversation" => Len(conversation_history') = 0
      ]_vars

\* The third chat of a conversation, one of whose model calls failed, in a
\* session that has set a context and validated a plan.
C30_Witness ==
    /\ ChatReturned
    /\ ret.value.conversation_turn = 3
    /\ Len(conversation_history) = 6
    /\ conversation_history[4].content = Apology("timeout")
    /\ DOMAIN current_context # {}
    /\ validation_history > 0


====
